---- MODULE Spec2Model ----
(***************************************************************************)
(* Luminary: the spec-loading pipeline (app/services/spec_service.py,      *)
(* app/routers/spec.py), the proxy engine (app/services/proxy_service.py)  *)
(* and the single spec slot of the store (app/services/store.py).          *)
(*                                                                         *)
(* Python values are tagged nodes: Dict(f), List(l), Str(s), Bool(b),      *)
(* NoneVal.  A dict is a function from its keys to nodes; its iteration    *)
(* order is the order of KeyOrder (documents list their keys in one        *)
(* canonical order).  A URL is a record [dir, file]; dir ends in "/".      *)
(***************************************************************************)
EXTENDS Integers, Sequences, FiniteSets, TLC

VARIABLES
    slot,      \* store.spec: NoneVal or a LoadedSpec
    clock,     \* wall clock read by datetime.now() for loaded_at
    loads,     \* per load call: the frame of load_spec_endpoint / load_spec
    last,      \* the latest step taken: its kind, HTTP status and response body
    expected,  \* history: result of the latest completed successful load or DELETE
    pool,      \* fetch pool of one resolution, tasks counted by position
    pcalls,    \* per proxy call: the frame of proxy_execute / execute_proxy
    shared,    \* app.state.http_client: the shared pooled transport
    estore     \* app.state.store: the environment store, its file and its callers

vars == <<slot, clock, loads, last, expected, pool, pcalls, shared, estore>>

-----------------------------------------------------------------------------
(* Bounds *)

\* Number of successful loads a run may complete (values of loaded_at).
MaxClock == 2
\* Largest number of path-item fetch tasks and of parameter fetch tasks of one
\* resolution in the counted fetch pool.
PoolPathTasks == 32
PoolParamTasks == 31

-----------------------------------------------------------------------------
(* Python values *)

Dict(f) == [t |-> "dict", d |-> f]
List(l) == [t |-> "list", l |-> l]
Str(s) == [t |-> "str", s |-> s]
Bool(b) == [t |-> "bool", b |-> b]
NoneVal == [t |-> "none"]
EmptyDict == Dict(<<>>)

IsDict(x) == x.t = "dict"
IsList(x) == x.t = "list"
Has(x, k) == k \in DOMAIN x.d
Get(x, k, dflt) == IF k \in DOMAIN x.d THEN x.d[k] ELSE dflt
\* dict.get(k, []) read as a sequence to iterate
GetList(x, k) == IF k \in DOMAIN x.d THEN x.d[k].l ELSE <<>>
\* Python truthiness of a dict
NonEmpty(x) == DOMAIN x.d # {}
\* d[k] = v on a copy
Put(x, k, v) == Dict([kk \in (DOMAIN x.d) \cup {k} |-> IF kk = k THEN v ELSE x.d[kk]])

\* Canonical iteration order of dict keys.
KeyOrder ==
    << "$ref", "openapi", "swagger", "info", "servers", "host", "paths",
       "components", "parameters", "schemas",
       "get", "GET", "post", "put", "patch", "delete", "head", "options", "trace",
       "summary", "x-note",
       "name", "in", "required", "description", "schema", "type", "title",
       "version", "url", "not",
       "/a", "/b", "/c", "/d", "P", "S", "T" >>

Keys(x) == SelectSeq(KeyOrder, LAMBDA k : k \in DOMAIN x.d)

\* str.lower() and str.upper() on the dict keys and header names that occur.
Lower(s) ==
    CASE s = "GET" -> "get"
      [] s = "Authorization" -> "authorization"
      [] s = "X-API-Key" -> "x-api-key"
      [] s = "Proxy-Authorization" -> "proxy-authorization"
      [] s = "Connection" -> "connection"
      [] s = "Transfer-Encoding" -> "transfer-encoding"
      [] s = "Content-Type" -> "content-type"
      [] s = "Keep-Alive" -> "keep-alive"
      [] s = "TE" -> "te"
      [] s = "X-Trace" -> "x-trace"
      [] s = "X-Up" -> "x-up"
      [] OTHER -> s
\* Variant: the method key is kept as written.
UpperAsWritten(s) == s

Upper(s) ==
    CASE s \in {"get", "GET"} -> "GET"
      [] s = "post" -> "POST"
      [] s = "put" -> "PUT"
      [] s = "patch" -> "PATCH"
      [] s = "delete" -> "DELETE"
      [] s = "head" -> "HEAD"
      [] s = "options" -> "OPTIONS"
      [] s = "trace" -> "TRACE"
      [] OTHER -> s

HTTP_METHODS == {"get", "post", "put", "patch", "delete", "head", "options", "trace"}

-----------------------------------------------------------------------------
(* References and URLs.  A "$ref" string is a fragment "#/a/b" (FragRef),  *)
(* "#a" without the slash (BareFragRef), a relative reference (RelRef) or  *)
(* an absolute URL (AbsRef).                                               *)

FragRef(ptr) == [t |-> "str", k |-> "frag", dir |-> "", file |-> "", ptr |-> ptr]
BareFragRef(ptr) == [t |-> "str", k |-> "barefrag", dir |-> "", file |-> "", ptr |-> ptr]
RelRef(dir, file) == [t |-> "str", k |-> "rel", dir |-> dir, file |-> file, ptr |-> <<>>]
AbsRef(dir, file) == [t |-> "str", k |-> "abs", dir |-> dir, file |-> file, ptr |-> <<>>]

Url(dir, file) == [dir |-> dir, file |-> file]

\* ref.startswith("#")
StartsWithHash(ref) == ref.k \in {"frag", "barefrag"}
\* ref.startswith("#/")
StartsWithHashSlash(ref) == ref.k = "frag"
\* url.rsplit("/", 1)[0] + "/"
BaseOf(url) == url.dir
\* urllib.parse.urljoin(base, ref) for a non-fragment ref
UrlJoin(base, ref) ==
    IF ref.k = "abs" THEN Url(ref.dir, ref.file) ELSE Url(base \o ref.dir, ref.file)
\* url.endswith(".yaml") or url.endswith(".yml")
EndsWithYaml(url) ==
    url.file \in { "a.yaml", "p.yaml", "r.yaml", "plain.yaml", "spec.yml",
                   "c.yaml", "n.yaml", "q.yaml", "s.yaml", "m.yaml" }

-----------------------------------------------------------------------------
(* Internal $ref resolution and endpoint flattening *)

RECURSIVE Descend(_, _)
Descend(node, parts) ==
    IF parts = <<>> THEN node
    ELSE IF ~IsDict(node) THEN EmptyDict
    ELSE Descend(Get(node, Head(parts), EmptyDict), Tail(parts))

_resolve_internal_ref(ref, spec) ==
    IF ~StartsWithHashSlash(ref) THEN EmptyDict
    ELSE LET node == Descend(spec, ref.ptr)
         IN  IF IsDict(node) THEN node ELSE EmptyDict

_resolve_schema(schema, spec) ==
    IF Has(schema, "$ref") THEN _resolve_internal_ref(schema.d["$ref"], spec)
    ELSE schema

ParameterInfo(p, schema) ==
    [ name |-> Get(p, "name", Str("")),
      location |-> Get(p, "in", Str("query")),
      required |-> Get(p, "required", Bool(FALSE)),
      description |-> Get(p, "description", NoneVal),
      schema |-> schema ]

\* One round of the loop of _extract_parameters: the ParameterInfo of raw entry p,
\* as a sequence of length 0 (skipped) or 1.
ExtractOne(p0, spec) ==
    IF ~IsDict(p0) THEN <<>>
    ELSE LET p == IF Has(p0, "$ref")
                  THEN _resolve_internal_ref(p0.d["$ref"], spec) ELSE p0
         IN  IF ~NonEmpty(p) THEN <<>>
             ELSE <<ParameterInfo(p, _resolve_schema(Get(p, "schema", EmptyDict), spec))>>

RECURSIVE ExtractAll(_, _)
ExtractAll(raw, spec) ==
    IF raw = <<>> THEN <<>>
    ELSE ExtractOne(Head(raw), spec) \o ExtractAll(Tail(raw), spec)

\* Variant: the operation's own parameters come first.
_extract_parameters_op_first(operation, path_item, spec) ==
    ExtractAll(GetList(operation, "parameters") \o GetList(path_item, "parameters"), spec)

_extract_parameters(operation, path_item, spec) ==
    ExtractAll(GetList(path_item, "parameters") \o GetList(operation, "parameters"), spec)

EndpointSummary(method, path, operation, path_item, spec) ==
    [ method |-> Upper(method),
      path |-> path,
      summary |-> Get(operation, "summary", NoneVal),
      parameters |-> _extract_parameters(operation, path_item, spec) ]

\* The endpoints of one path item, its keys in iteration order.
RECURSIVE FlattenItem(_, _, _, _)
FlattenItem(path, path_item, methods, spec) ==
    IF methods = <<>> THEN <<>>
    ELSE LET m == Head(methods)
             rest == FlattenItem(path, path_item, Tail(methods), spec)
         IN  IF Lower(m) \notin HTTP_METHODS THEN rest
             ELSE IF ~IsDict(path_item.d[m]) THEN rest
             ELSE <<EndpointSummary(m, path, path_item.d[m], path_item, spec)>> \o rest

RECURSIVE FlattenPaths(_, _, _)
FlattenPaths(paths, keys, spec) ==
    IF keys = <<>> THEN <<>>
    ELSE LET path == Head(keys)
             rest == FlattenPaths(paths, Tail(keys), spec)
         IN  IF ~IsDict(paths.d[path]) THEN rest
             ELSE FlattenItem(path, paths.d[path], Keys(paths.d[path]), spec) \o rest

_flatten_endpoints(spec) ==
    LET paths == Get(spec, "paths", EmptyDict)
    IN  FlattenPaths(paths, Keys(paths), spec)

-----------------------------------------------------------------------------
(* External $ref resolution: the synchronous parts of                      *)
(* _resolve_external_path_items                                            *)

\* `isinstance(x, dict) and "$ref" in x and not x["$ref"].startswith("#")`
IsExternalRefParam(param) ==
    IsDict(param) /\ Has(param, "$ref") /\ ~StartsWithHash(param.d["$ref"])

\* Phase 1: the pure external path-item refs, as <<path, absolute URL>> in path order.
RECURSIVE CollectExternal(_, _, _)
CollectExternal(paths, keys, spec_base) ==
    IF keys = <<>> THEN <<>>
    ELSE LET path == Head(keys)
             item == paths.d[path]
             rest == CollectExternal(paths, Tail(keys), spec_base)
         IN  IF IsDict(item) /\ DOMAIN item.d = {"$ref"} /\ ~StartsWithHash(item.d["$ref"])
             THEN <<[path |-> path, url |-> UrlJoin(spec_base, item.d["$ref"])]>> \o rest
             ELSE rest

Phase1External(spec, spec_url) ==
    LET paths == Get(spec, "paths", EmptyDict)
    IN  CollectExternal(paths, Keys(paths), BaseOf(spec_url))

\* Phase 3: the external parameter refs of one fetched path-item document.
DocParamUrls(doc, file_url) ==
    IF ~NonEmpty(doc) THEN {}
    ELSE UNION { LET op == Get(doc, method, NoneVal)
                 IN  IF ~IsDict(op) THEN {}
                     ELSE { UrlJoin(BaseOf(file_url), p.d["$ref"]) :
                              p \in { q \in { GetList(op, "parameters")[i] :
                                                i \in DOMAIN GetList(op, "parameters") } :
                                        IsExternalRefParam(q) } }
               : method \in HTTP_METHODS }

Phase3ParamUrls(items) ==
    UNION { DocParamUrls(items[i].doc, items[i].url) : i \in DOMAIN items }

\* Phase 5: the rewritten parameter list of one operation.
InlineParam(param, file_base, cache) ==
    IF IsExternalRefParam(param)
    THEN LET u == UrlJoin(file_base, param.d["$ref"])
         IN  IF u \in DOMAIN cache THEN cache[u] ELSE param
    ELSE param

InlineOp(op, file_base, cache) ==
    LET ps == GetList(op, "parameters")
    IN  Put(op, "parameters",
            List([i \in DOMAIN ps |-> InlineParam(ps[i], file_base, cache)]))

InlineDoc(doc, file_url, cache) ==
    Dict([k \in DOMAIN doc.d |->
            IF k \in HTTP_METHODS /\ IsDict(doc.d[k])
            THEN InlineOp(doc.d[k], BaseOf(file_url), cache)
            ELSE doc.d[k]])

\* Phase 5: the path table after inlining every fetched, non-empty path-item document.
RECURSIVE Phase5Inline(_, _, _)
Phase5Inline(paths, items, cache) ==
    IF items = <<>> THEN paths
    ELSE LET it == Head(items)
         IN  IF ~NonEmpty(it.doc) THEN Phase5Inline(paths, Tail(items), cache)
             ELSE Phase5Inline(Put(paths, it.path, InlineDoc(it.doc, it.url, cache)),
                               Tail(items), cache)

-----------------------------------------------------------------------------
(* Environments held by the store (app/models.py) *)

AuthConfig(type, token, header_name, bearer_prefix, username, password) ==
    [ type |-> type, token |-> token, header_name |-> header_name,
      bearer_prefix |-> bearer_prefix, username |-> username, password |-> password ]

Environment(id, base_url, auth, verify_ssl) ==
    [ id |-> id, base_url |-> base_url, auth |-> auth, verify_ssl |-> verify_ssl ]

\* Python truthiness of an optional string
Truthy(x) == x.t = "str" /\ x.s # ""

\* "https://api.test" as the sequence of its characters: base URLs and paths
\* are character sequences, so that rstrip, replace and quote work on characters.
ApiTest == <<"h", "t", "t", "p", "s", ":", "/", "/", "a", "p", "i", ".", "t", "e", "s", "t">>

\* The content of store._data in the runs explored.
Envs ==
    "e_bearer" :> Environment("e_bearer", ApiTest,
        AuthConfig("bearer", Str("tok123"), NoneVal, "Bearer", NoneVal, NoneVal), TRUE)
 @@ "e_key" :> Environment("e_key", ApiTest \o <<"/">>,
        AuthConfig("api_key", Str("k1"), NoneVal, "Bearer", NoneVal, NoneVal), FALSE)
 @@ "e_pkey" :> Environment("e_pkey", ApiTest,
        AuthConfig("api_key", Str("k2"), Str("Proxy-Authorization"), "Bearer",
                   NoneVal, NoneVal), TRUE)
 @@ "e_basic" :> Environment("e_basic", ApiTest \o <<"/", "/">>,
        AuthConfig("basic", NoneVal, NoneVal, "Bearer", Str("u"), NoneVal), FALSE)
 @@ "e_none" :> Environment("e_none", ApiTest,
        AuthConfig("none", NoneVal, NoneVal, "Bearer", NoneVal, NoneVal), TRUE)
 @@ "e_bearer0" :> Environment("e_bearer0", ApiTest,
        AuthConfig("bearer", NoneVal, NoneVal, "Token", Str("u"), Str("pw")), TRUE)
 @@ "e_basic2" :> Environment("e_basic2", ApiTest,
        AuthConfig("basic", Str("t9"), Str("X-Up"), "Bearer", Str("u"), Str("pw")), TRUE)
 @@ "e_basic0" :> Environment("e_basic0", ApiTest,
        AuthConfig("basic", NoneVal, NoneVal, "Bearer", NoneVal, Str("pw")), FALSE)

NoId == ""

\* EnvironmentStore.get
StoreGet(env_id) == IF env_id \in DOMAIN Envs THEN Envs[env_id] ELSE NoneVal

-----------------------------------------------------------------------------
(* The documents served on the network *)

RootDir == "https://h0/api/"
ItemDir == "https://h0/api/items/"
\* A directory on another host, referred to by an absolute URL.
OtherDir == "https://h1/ext/"

U_MAIN == Url(RootDir, "openapi.json")
U_NOKEY == Url(RootDir, "nokey.json")
U_PLAIN == Url(RootDir, "plain.yaml")
U_A == Url(ItemDir, "a.yaml")
U_P == Url(ItemDir, "p.yaml")
U_R == Url(OtherDir, "r.json")

SchemaS == Dict("type" :> Str("string"))
SchemaT == Dict("$ref" :> FragRef(<<"components", "schemas", "S">>))

DocP ==
    Dict("name" :> Str("id") @@ "in" :> Str("path") @@ "required" :> Bool(TRUE)
         @@ "schema" :> Dict("type" :> Str("integer")))
DocR ==
    Dict("name" :> Str("tag") @@ "in" :> Str("query")
         @@ "schema" :> Dict("$ref" :> FragRef(<<"components", "schemas", "S">>)))
ParamQ == Dict("name" :> Str("q") @@ "in" :> Str("query") @@ "schema" :> SchemaS)
ParamLimit ==
    Dict("name" :> Str("limit") @@ "in" :> Str("query")
         @@ "schema" :> Dict("$ref" :> FragRef(<<"components", "schemas", "S">>)))

\* A parameter whose schema refers to a schema that is itself a reference.
ParamDeep ==
    Dict("name" :> Str("deep") @@ "in" :> Str("query")
         @@ "schema" :> Dict("$ref" :> FragRef(<<"components", "schemas", "T">>)))

DocA ==
    Dict("get" :> Dict("summary" :> Str("a")
                       @@ "parameters" :> List(<< Dict("$ref" :> RelRef("", "p.yaml")),
                                                  ParamQ,
                                                  Dict("$ref" :> AbsRef(OtherDir, "r.json")) >>)))

\* A path item with shared parameters.  Its lists hold a reference that resolves
\* to nothing, an entry that is no mapping, and the parameter P at both levels.
ItemC ==
    Dict("parameters" :> List(<< Dict("$ref" :> FragRef(<<"components", "parameters", "P">>)),
                                 Str("junk") >>)
         @@ "get" :> Dict("summary" :> Str("c")
                       @@ "parameters" :>
                            List(<< ParamLimit,
                                    Dict("$ref" :> FragRef(<<"components", "parameters", "Gone">>)),
                                    ParamDeep,
                                    DocP >>)))

Components ==
    Dict("parameters" :> Dict("P" :> DocP)
         @@ "schemas" :> Dict("S" :> SchemaS @@ "T" :> SchemaT))

RootMain ==
    Dict("openapi" :> Str("3.0.0")
         @@ "info" :> Dict("title" :> Str("Main") @@ "version" :> Str("1"))
         @@ "servers" :> List(<<Dict("url" :> Str("https://api.test"))>>)
         @@ "paths" :> Dict("/a" :> Dict("$ref" :> RelRef("items/", "a.yaml"))
                            @@ "/b" :> Dict("$ref" :> RelRef("items/", "a.yaml"))
                            @@ "/c" :> ItemC)
         @@ "components" :> Components)

RootNoKey ==
    Dict("info" :> Dict("title" :> Str("NoKey"))
         @@ "paths" :> Dict("/a" :> Dict("$ref" :> RelRef("items/", "a.yaml"))))

RootPlain ==
    Dict("swagger" :> Str("2.0")
         @@ "host" :> Str("plain.test")
         @@ "paths" :> Dict("/c" :> Dict("get" :> Dict("summary" :> Str("plain")))
                            @@ "/d" :> Dict("GET" :> Dict("summary" :> Str("upper"))
                                            @@ "x-note" :> Str("n"))))

\* Documents that refer to themselves and to each other.  c.yaml is a path item
\* whose operation has itself and q.yaml as parameters; the parameter q.yaml
\* has the external schema s.yaml, which refers back to q.yaml; n.yaml is a
\* path item that is only a reference to the path item m.yaml, which refers to
\* n.yaml.
U_CYC == Url(RootDir, "cyc.json")
U_C == Url(ItemDir, "c.yaml")
U_N == Url(ItemDir, "n.yaml")
U_Q == Url(ItemDir, "q.yaml")
U_S == Url(ItemDir, "s.yaml")
U_M == Url(ItemDir, "m.yaml")

DocC ==
    Dict("get" :> Dict("summary" :> Str("c")
                       @@ "parameters" :> List(<< Dict("$ref" :> RelRef("", "c.yaml")),
                                                  Dict("$ref" :> RelRef("", "q.yaml")) >>)))
DocQ ==
    Dict("name" :> Str("q") @@ "in" :> Str("query")
         @@ "schema" :> Dict("$ref" :> RelRef("", "s.yaml")))
DocS == Dict("$ref" :> RelRef("", "q.yaml"))
DocN == Dict("$ref" :> RelRef("", "m.yaml"))
DocM == Dict("$ref" :> RelRef("", "n.yaml"))

RootCyc ==
    Dict("openapi" :> Str("3.0.0")
         @@ "info" :> Dict("title" :> Str("Cyc") @@ "version" :> Str("1"))
         @@ "paths" :> Dict("/a" :> Dict("$ref" :> RelRef("items/", "c.yaml"))
                            @@ "/b" :> Dict("$ref" :> RelRef("items/", "n.yaml"))))

\* The body of an error page, and a mapping that is no OpenAPI document.
ErrorBody == Dict("x-note" :> Str("internal error"))
NotASpec == Dict("not" :> Str("a spec"))

\* A response body: the text as the two parsers read it.
Text(fmt, val) == [fmt |-> fmt, val |-> val]
Garbage == Text("garbage", NoneVal)

\* json.loads / yaml.safe_load: [ok |-> parsed without exception, val |-> the value]
JsonLoads(text) == [ok |-> text.fmt = "json", val |-> text.val]
YamlSafeLoad(text) == [ok |-> text.fmt \in {"json", "yaml"}, val |-> text.val]

Response(status, ctype, text) ==
    [kind |-> "response", status |-> status, ctype |-> ctype, text |-> text]
TimeoutExc == [kind |-> "timeout", status |-> 0, ctype |-> "", text |-> Garbage]
ConnectExc == [kind |-> "connect_error", status |-> 0, ctype |-> "", text |-> Garbage]

\* What the origin serves at a URL when it works.
Origin(url) ==
    CASE url = U_MAIN -> Response(200, "application/json", Text("json", RootMain))
      [] url = U_NOKEY -> Response(200, "application/json", Text("json", RootNoKey))
      [] url = U_PLAIN -> Response(200, "text/plain", Text("yaml", RootPlain))
      [] url = U_A -> Response(200, "application/yaml", Text("yaml", DocA))
      [] url = U_P -> Response(200, "text/plain", Text("yaml", DocP))
      [] url = U_R -> Response(200, "application/json", Text("json", DocR))
      [] url = U_CYC -> Response(200, "application/json", Text("json", RootCyc))
      [] url = U_C -> Response(200, "application/yaml", Text("yaml", DocC))
      [] url = U_N -> Response(200, "text/plain", Text("yaml", DocN))
      [] url = U_Q -> Response(200, "text/plain", Text("yaml", DocQ))
      [] url = U_S -> Response(200, "text/plain", Text("yaml", DocS))
      [] url = U_M -> Response(200, "text/plain", Text("yaml", DocM))
      [] OTHER -> Response(404, "text/plain", Garbage)

\* Every outcome one GET of a URL can have.
Responses(url) ==
    { Origin(url),
      Response(500, "application/json", Text("json", ErrorBody)),
      TimeoutExc,
      ConnectExc,
      Response(200, "application/json", Garbage),
      Response(200, "application/json", Text("json", List(<<>>))),
      Response(200, "application/json", Text("json", NotASpec)) }

\* Every outcome the GET of a root document can have: those above, and a YAML
\* body served with a JSON content type.
RootResponses(url) ==
    Responses(url) \cup {Response(200, "application/json", Text("yaml", RootPlain))}

\* Response.raise_for_status() passes
IsSuccess(r) == r.kind = "response" /\ r.status >= 200 /\ r.status < 300
\* "yaml" in content_type
CtypeHasYaml(ctype) == ctype \in {"application/yaml", "text/yaml", "application/x-yaml"}

-----------------------------------------------------------------------------
(* load_spec and _fetch_external: the synchronous parts *)

\* asyncio.Semaphore(30)
SemLimit == 30

\* load_spec: the headers of the root request
RootHeaders(environment) ==
    IF environment = NoneVal THEN <<>>
    ELSE LET auth == environment.auth
         IN  IF auth.type = "bearer" /\ Truthy(auth.token)
             THEN "Authorization" :> (auth.bearer_prefix \o " " \o auth.token.s)
             ELSE IF auth.type = "api_key" /\ Truthy(auth.token)
             THEN (IF Truthy(auth.header_name) THEN auth.header_name.s ELSE "X-API-Key")
                      :> auth.token.s
             ELSE <<>>

\* load_spec: the root text parsed; ok is FALSE when the parse raised
ParseRoot(url, r) ==
    LET is_yaml == CtypeHasYaml(r.ctype) \/ EndsWithYaml(url)
        first == IF is_yaml THEN YamlSafeLoad(r.text) ELSE JsonLoads(r.text)
    IN  IF ~first.ok THEN [ok |-> FALSE, val |-> NoneVal]
        ELSE IF IsDict(first.val) THEN first
        ELSE LET second == YamlSafeLoad(r.text)
             IN  [ok |-> TRUE, val |-> IF second.ok THEN second.val ELSE first.val]

\* Variant: any mapping is accepted as a spec.
ValidRootLax(spec) == TRUE

\* load_spec: the discriminator key check
ValidRoot(spec) == Has(spec, "openapi") \/ Has(spec, "swagger")

\* load_spec: the inferred base URL
BaseUrl(spec) ==
    IF Has(spec, "servers") /\ spec.d["servers"].l # <<>>
    THEN Get(spec.d["servers"].l[1], "url", NoneVal)
    ELSE IF Has(spec, "host")
    THEN Str((IF Has(spec, "schemes") THEN spec.d["schemes"].l[1].s ELSE "https")
             \o "://" \o spec.d["host"].s
             \o (IF Has(spec, "basePath") THEN spec.d["basePath"].s ELSE ""))
    ELSE NoneVal

LoadedSpec(spec, url, now) ==
    LET info == Get(spec, "info", EmptyDict)
    IN  [ t |-> "LoadedSpec",
          title |-> Get(info, "title", Str("Untitled")),
          version |-> Get(info, "version", Str("unknown")),
          description |-> Get(info, "description", NoneVal),
          base_url |-> BaseUrl(spec),
          endpoints |-> _flatten_endpoints(spec),
          raw |-> spec,
          source_url |-> url,
          loaded_at |-> now ]

\* Variant: raise_for_status() is not called, an error page that parses is kept.
FetchResultNoRaise(url, r) ==
    IF r.kind # "response" THEN EmptyDict
    ELSE LET is_yaml == CtypeHasYaml(r.ctype) \/ EndsWithYaml(url)
             parsed == IF is_yaml THEN YamlSafeLoad(r.text) ELSE JsonLoads(r.text)
         IN  IF parsed.ok /\ IsDict(parsed.val) THEN parsed.val ELSE EmptyDict

\* _fetch_external: the document recorded in the cache for response r
FetchResult(url, r) ==
    IF ~IsSuccess(r) THEN EmptyDict
    ELSE LET is_yaml == CtypeHasYaml(r.ctype) \/ EndsWithYaml(url)
             parsed == IF is_yaml THEN YamlSafeLoad(r.text) ELSE JsonLoads(r.text)
         IN  IF parsed.ok /\ IsDict(parsed.val) THEN parsed.val ELSE EmptyDict

\* Variant: the semaphore never blocks.
SemNeverBlocks(value) == TRUE

\* asyncio.Semaphore.acquire returns at once
SemCanAcquire(value) == value > 0

\* Variant: the join returns with the first finished task.
JoinedAny(tasks) == \E i \in DOMAIN tasks : tasks[i] = "done"

\* asyncio.gather returns: every task of the phase has finished
Joined(tasks) == \A i \in DOMAIN tasks : tasks[i] = "done"

RECURSIVE SetToSeq(_)
SetToSeq(S) ==
    IF S = {} THEN <<>>
    ELSE LET x == CHOOSE y \in S : TRUE IN <<x>> \o SetToSeq(S \ {x})

FirstIn(tasks, st) ==
    IF \E i \in DOMAIN tasks : tasks[i] = st
    THEN CHOOSE i \in DOMAIN tasks : tasks[i] = st /\ \A j \in 1..(i - 1) : tasks[j] # st
    ELSE 0

-----------------------------------------------------------------------------
(* The load call: load_spec_endpoint, load_spec, _resolve_external_path_items *)

LoadCalls == {1}
LoadUrls == {U_MAIN, U_NOKEY, U_PLAIN}
LoadEnvIds == {NoId, "e_bearer", "missing"}
NoUrl == Url("", "")

IdleFrame ==
    [ pc |-> "idle", url |-> NoUrl, env_id |-> NoId, spec |-> NoneVal,
      external |-> <<>>, purls |-> <<>>, tasks |-> <<>>, items |-> <<>>,
      cache |-> <<>>, fetched |-> <<>>, sem |-> 0, sent |-> <<>>, status |-> 0,
      root |-> NoneVal, resp |-> NoneVal ]

Request(url, headers) == [url |-> url, headers |-> headers]

Event(kind, status, body) == [kind |-> kind, status |-> status, body |-> body]

\* Variant: the GET of an external document repeats the headers of the root GET.
ExternalRequestWithRootHeaders(f, url) == Request(url, f.sent[1].headers)

\* _fetch_external: http_client.get(url, follow_redirects=True, timeout=30.0), on
\* the shared client, which has no default headers.
ExternalRequest(f, url) == Request(url, <<>>)

\* The URL task i of the running phase fetches.
TaskUrl(f, i) == IF f.pc = "paths" THEN f.external[i].url ELSE f.purls[i]

InFlight(f) == {i \in DOMAIN f.tasks : f.tasks[i] = "flight"}

\* The response is one of the failures of an auxiliary document.
AuxFailed(r) ==
    \/ r.kind # "response"
    \/ r.status \notin 200..299
    \/ r.text.fmt = "garbage"
    \/ r.text.val.t # "dict"

\* The frame of a call that has ended with `status`; r is what the root GET
\* returned or raised, root the value the root text parsed to (NoneVal when it
\* was not fetched or did not parse).
DoneFrame(f, r, status, root) ==
    [IdleFrame EXCEPT !.pc = "done", !.url = f.url, !.env_id = f.env_id,
                      !.sent = f.sent, !.status = status, !.root = root, !.resp = r]

\* Variant: a failed load resets the slot.
RespondErrorClearsSlot(c, r, status, root) ==
    /\ loads' = [loads EXCEPT ![c] = DoneFrame(loads[c], r, status, root)]
    /\ last' = Event("load", status, NoneVal)
    /\ slot' = NoneVal
    /\ UNCHANGED <<clock, expected>>

\* The handler raises HTTPException(status): the frame ends, the slot is not written.
RespondError(c, r, status, root) ==
    /\ loads' = [loads EXCEPT ![c] = DoneFrame(loads[c], r, status, root)]
    /\ last' = Event("load", status, NoneVal)
    /\ UNCHANGED <<slot, clock, expected>>

\* load_spec returns and the handler stores the LoadedSpec in the slot.
Complete(c, r, spec, root) ==
    LET loaded == LoadedSpec(spec, loads[c].url, clock)
    IN  /\ slot' = loaded
        /\ clock' = clock + 1
        /\ expected' = loaded
        /\ last' = Event("load", 200, loaded)
        /\ loads' = [loads EXCEPT ![c] = DoneFrame(loads[c], r, 200, root)]

\* Phase 5 and the rest of load_spec.
InlineAndComplete(c, f) ==
    Complete(c, f.resp, Put(f.spec, "paths",
                    Phase5Inline(Get(f.spec, "paths", EmptyDict), f.items, f.cache)),
             f.root)

\* POST /api/spec/load arrives: environment lookup, then the root GET is sent.
LoadStart(c, url, env_id) ==
    /\ loads[c].pc \in {"idle", "done"}
    /\ clock < MaxClock
    /\ IF env_id # NoId /\ StoreGet(env_id) = NoneVal
       THEN /\ loads' = [loads EXCEPT ![c] =
                            [IdleFrame EXCEPT !.pc = "done", !.url = url,
                                              !.env_id = env_id, !.status = 404]]
            /\ last' = Event("load", 404, NoneVal)
       ELSE /\ loads' = [loads EXCEPT ![c] =
                            [IdleFrame EXCEPT
                                !.pc = "root", !.url = url, !.env_id = env_id,
                                !.sent = << Request(url,
                                    RootHeaders(IF env_id = NoId THEN NoneVal
                                                ELSE StoreGet(env_id))) >>]]
            /\ last' = Event("load_start", 0, NoneVal)
    /\ UNCHANGED <<slot, clock, expected, pool, pcalls, shared, estore>>

\* Variant: the root is stored in the slot as soon as it is validated.
BeginResolveStoresEarly(c, r, spec) ==
    LET external == Phase1External(spec, loads[c].url)
    IN  IF external = <<>>
        THEN Complete(c, r, spec, spec)
        ELSE /\ loads' = [loads EXCEPT ![c] =
                            [@ EXCEPT !.pc = "paths", !.spec = spec, !.root = spec,
                                      !.resp = r,
                                      !.external = external,
                                      !.tasks = [i \in DOMAIN external |-> "new"],
                                      !.sem = SemLimit]]
             /\ last' = Event("load_step", 0, NoneVal)
             /\ slot' = LoadedSpec(spec, loads[c].url, clock)
             /\ UNCHANGED <<clock, expected>>

\* Phase 1 and the start of phase 2, or the whole rest when nothing is external.
BeginResolve(c, r, spec) ==
    LET external == Phase1External(spec, loads[c].url)
    IN  IF external = <<>>
        THEN Complete(c, r, spec, spec)
        ELSE /\ loads' = [loads EXCEPT ![c] =
                            [@ EXCEPT !.pc = "paths", !.spec = spec, !.root = spec,
                                      !.resp = r,
                                      !.external = external,
                                      !.tasks = [i \in DOMAIN external |-> "new"],
                                      !.sem = SemLimit]]
             /\ last' = Event("load_step", 0, NoneVal)
             /\ UNCHANGED <<slot, clock, expected>>

\* The root GET returns or raises.
RootResponse(c, r) ==
    /\ loads[c].pc = "root"
    /\ r \in RootResponses(loads[c].url)
    /\ LET parsed == ParseRoot(loads[c].url, r)
       IN  IF ~IsSuccess(r) THEN RespondError(c, r, 502, NoneVal)
           ELSE IF ~parsed.ok THEN RespondError(c, r, 422, NoneVal)
           ELSE IF ~IsDict(parsed.val) THEN RespondError(c, r, 422, parsed.val)
           ELSE IF ~ValidRoot(parsed.val) THEN RespondError(c, r, 422, parsed.val)
           ELSE BeginResolve(c, r, parsed.val)
    /\ UNCHANGED <<pool, pcalls, shared, estore>>

\* Variant: the cache is one mapping shared by the loads in progress.
TaskStartSharedCache(c) ==
    LET f == loads[c]
        i == FirstIn(f.tasks, "new")
        all == [u \in UNION {DOMAIN loads[d].cache : d \in DOMAIN loads} |->
                  loads[CHOOSE d \in DOMAIN loads : u \in DOMAIN loads[d].cache].cache[u]]
    IN  /\ f.pc \in {"paths", "params"}
        /\ i # 0
        /\ LET u == TaskUrl(f, i)
           IN  loads' = [loads EXCEPT ![c] =
                 IF u \in DOMAIN all
                 THEN [f EXCEPT !.tasks[i] = "done",
                                !.cache = (u :> all[u]) @@ @,
                                !.items = IF f.pc = "paths"
                                          THEN Append(@, [path |-> f.external[i].path,
                                                          doc |-> all[u], url |-> u])
                                          ELSE @]
                 ELSE IF SemCanAcquire(f.sem)
                 THEN [f EXCEPT !.tasks[i] = "flight", !.sem = @ - 1,
                                !.sent = Append(@, ExternalRequest(f, u))]
                 ELSE [f EXCEPT !.tasks[i] = "wait"]]
        /\ last' = Event("load_step", 0, NoneVal)
        /\ UNCHANGED <<slot, clock, expected, pool, pcalls, shared, estore>>

\* The first step of the next fetch task of the phase: the cache check, the
\* semaphore, the GET.
TaskStart(c) ==
    LET f == loads[c]
        i == FirstIn(f.tasks, "new")
    IN  /\ f.pc \in {"paths", "params"}
        /\ i # 0
        /\ LET u == TaskUrl(f, i)
           IN  loads' = [loads EXCEPT ![c] =
                 IF u \in DOMAIN f.cache
                 THEN [f EXCEPT !.tasks[i] = "done",
                                !.items = IF f.pc = "paths"
                                          THEN Append(@, [path |-> f.external[i].path,
                                                          doc |-> f.cache[u], url |-> u])
                                          ELSE @]
                 ELSE IF SemCanAcquire(f.sem)
                 THEN [f EXCEPT !.tasks[i] = "flight", !.sem = @ - 1,
                                !.sent = Append(@, ExternalRequest(f, u))]
                 ELSE [f EXCEPT !.tasks[i] = "wait"]]
        /\ last' = Event("load_step", 0, NoneVal)
        /\ UNCHANGED <<slot, clock, expected, pool, pcalls, shared, estore>>

\* The GET of task i returns or raises: the cache is written, the semaphore is
\* released (the longest waiting task takes the slot and sends its GET).
TaskReturn(c, i, r) ==
    LET f == loads[c]
    IN  /\ f.pc \in {"paths", "params"}
        /\ i \in InFlight(f)
        /\ r \in Responses(TaskUrl(f, i))
        /\ LET u == TaskUrl(f, i)
               doc == FetchResult(u, r)
               w == FirstIn(f.tasks, "wait")
           IN  loads' = [loads EXCEPT ![c] =
                 [f EXCEPT
                    !.cache = (u :> doc) @@ @,
                    !.fetched = (u :> ~AuxFailed(r)) @@ @,
                    !.items = IF f.pc = "paths"
                              THEN Append(@, [path |-> f.external[i].path,
                                              doc |-> doc, url |-> u])
                              ELSE @,
                    !.tasks = [j \in DOMAIN f.tasks |->
                                 IF j = i THEN "done"
                                 ELSE IF j = w THEN "flight" ELSE f.tasks[j]],
                    !.sem = IF w = 0 THEN @ + 1 ELSE @,
                    !.sent = IF w = 0 THEN @ ELSE Append(@, ExternalRequest(f, TaskUrl(f, w)))]]
        /\ last' = Event("load_step", 0, NoneVal)
        /\ UNCHANGED <<slot, clock, expected, pool, pcalls, shared, estore>>

\* gather of phase 2 returns: phase 3, then phase 4 starts, or phase 5 and the rest.
PathsJoined(c) ==
    LET f == loads[c]
        purls == SetToSeq(Phase3ParamUrls(f.items))
    IN  /\ f.pc = "paths"
        /\ Joined(f.tasks)
        /\ IF purls = <<>>
           THEN InlineAndComplete(c, f)
           ELSE /\ loads' = [loads EXCEPT ![c] =
                                [f EXCEPT !.pc = "params", !.purls = purls,
                                          !.tasks = [i \in DOMAIN purls |-> "new"]]]
                /\ last' = Event("load_step", 0, NoneVal)
                /\ UNCHANGED <<slot, clock, expected>>
        /\ UNCHANGED <<pool, pcalls, shared, estore>>

\* The external references a parameter document carries, at its top level and
\* in its schema.
DocRefs(doc, url) ==
    { UrlJoin(BaseOf(url), x.d["$ref"]) :
        x \in {y \in {doc, Get(doc, "schema", EmptyDict)} : IsExternalRefParam(y)} }

\* Variant: the references found in the fetched parameter documents are fetched
\* in a further round.
ParamsJoinedFollows(c) ==
    LET f == loads[c]
        more == SetToSeq(UNION {DocRefs(f.cache[f.purls[i]], f.purls[i]) : i \in DOMAIN f.purls}
                         \ DOMAIN f.cache)
    IN  /\ f.pc = "params"
        /\ Joined(f.tasks)
        /\ IF more = <<>>
           THEN InlineAndComplete(c, f)
           ELSE /\ loads' = [loads EXCEPT ![c] =
                                [f EXCEPT !.purls = more,
                                          !.tasks = [i \in DOMAIN more |-> "new"]]]
                /\ last' = Event("load_step", 0, NoneVal)
                /\ UNCHANGED <<slot, clock, expected>>
        /\ UNCHANGED <<pool, pcalls, shared, estore>>

\* gather of phase 4 returns: phase 5 and the rest.
ParamsJoined(c) ==
    LET f == loads[c]
    IN  /\ f.pc = "params"
        /\ Joined(f.tasks)
        /\ InlineAndComplete(c, f)
        /\ UNCHANGED <<pool, pcalls, shared, estore>>

-----------------------------------------------------------------------------
(* GET /api/spec and DELETE /api/spec (app/routers/spec.py) *)

NotLoaded == Dict("loaded" :> Bool(FALSE))

get_spec ==
    /\ last' = Event("get", 200, IF slot = NoneVal THEN NotLoaded ELSE slot)
    /\ UNCHANGED <<slot, clock, loads, expected, pool, pcalls, shared, estore>>

\* Variant: DELETE answers without resetting the slot.
clear_spec_keeps ==
    /\ expected' = NoneVal
    /\ last' = Event("delete", 200, Dict("cleared" :> Bool(TRUE)))
    /\ UNCHANGED <<slot, clock, loads, pool, pcalls, shared, estore>>

clear_spec ==
    /\ slot' = NoneVal
    /\ expected' = NoneVal
    /\ last' = Event("delete", 200, Dict("cleared" :> Bool(TRUE)))
    /\ UNCHANGED <<clock, loads, pool, pcalls, shared, estore>>

-----------------------------------------------------------------------------
(* The specification of the spec slot and the load pipeline *)

\* The counted fetch pool (below): n tasks created for a phase.
PoolFrame(phase, n) ==
    [phase |-> phase, new |-> n, wait |-> 0, flight |-> 0, done |-> 0, sem |-> SemLimit]

\* The state of the parts a specification leaves unused.
NoPool == PoolFrame("none", 0)
NoCalls == <<>>
NoStore == <<>>

Init ==
    /\ slot = NoneVal
    /\ clock = 0
    /\ loads = [c \in LoadCalls |-> IdleFrame]
    /\ last = Event("start", 0, NoneVal)
    /\ expected = NoneVal
    /\ pool = NoPool
    /\ pcalls = NoCalls
    /\ shared = [verify |-> TRUE]
    /\ estore = NoStore

Next ==
    \/ \E c \in LoadCalls, url \in LoadUrls, env_id \in LoadEnvIds : LoadStart(c, url, env_id)
    \/ \E c \in LoadCalls : \E r \in RootResponses(loads[c].url) : RootResponse(c, r)
    \/ \E c \in LoadCalls : TaskStart(c)
    \/ \E c \in LoadCalls : \E i \in InFlight(loads[c]) :
          \E r \in Responses(TaskUrl(loads[c], i)) : TaskReturn(c, i, r)
    \/ \E c \in LoadCalls : PathsJoined(c)
    \/ \E c \in LoadCalls : ParamsJoined(c)
    \/ get_spec
    \/ clear_spec

Spec == Init /\ [][Next]_vars

-----------------------------------------------------------------------------
(* Two overlapping loads of the same root document.  Each GET either gets    *)
(* the origin's answer or times out.                                        *)

OverlapCalls == {1, 2}
OverlapResponses(url) == {Origin(url), TimeoutExc}

OverlapInit ==
    /\ slot = NoneVal
    /\ clock = 0
    /\ loads = [c \in OverlapCalls |-> IdleFrame]
    /\ last = Event("start", 0, NoneVal)
    /\ expected = NoneVal
    /\ pool = NoPool
    /\ pcalls = NoCalls
    /\ shared = [verify |-> TRUE]
    /\ estore = NoStore

OverlapNext ==
    \/ \E c \in OverlapCalls : LoadStart(c, U_MAIN, NoId)
    \/ \E c \in OverlapCalls : \E r \in OverlapResponses(loads[c].url) : RootResponse(c, r)
    \/ \E c \in OverlapCalls : TaskStart(c)
    \/ \E c \in OverlapCalls : \E i \in InFlight(loads[c]) :
          \E r \in OverlapResponses(TaskUrl(loads[c], i)) : TaskReturn(c, i, r)
    \/ \E c \in OverlapCalls : PathsJoined(c)
    \/ \E c \in OverlapCalls : ParamsJoined(c)

SpecOverlap == OverlapInit /\ [][OverlapNext]_vars

\* Overlapping loads and DELETE: loads of a root with external documents and of
\* a root without, by either call, and DELETE at any moment.
SlotUrls == {U_CYC, U_PLAIN}

SlotNext ==
    \/ \E c \in OverlapCalls, url \in SlotUrls : LoadStart(c, url, NoId)
    \/ \E c \in OverlapCalls : \E r \in OverlapResponses(loads[c].url) : RootResponse(c, r)
    \/ \E c \in OverlapCalls : TaskStart(c)
    \/ \E c \in OverlapCalls : \E i \in InFlight(loads[c]) :
          \E r \in OverlapResponses(TaskUrl(loads[c], i)) : TaskReturn(c, i, r)
    \/ \E c \in OverlapCalls : PathsJoined(c)
    \/ \E c \in OverlapCalls : ParamsJoined(c)
    \/ clear_spec

SpecSlot == OverlapInit /\ [][SlotNext]_vars

-----------------------------------------------------------------------------
(* Loads of a root whose external documents refer to themselves and to each  *)
(* other, with the scheduling of the event loop: a step that can be taken    *)
(* is taken, and every GET returns or raises.                                *)

DepthInit ==
    /\ slot = NoneVal
    /\ clock = 0
    /\ loads = [c \in LoadCalls |-> IdleFrame]
    /\ last = Event("start", 0, NoneVal)
    /\ expected = NoneVal
    /\ pool = NoPool
    /\ pcalls = NoCalls
    /\ shared = [verify |-> TRUE]
    /\ estore = NoStore

DepthNext ==
    \/ \E c \in LoadCalls : LoadStart(c, U_CYC, NoId)
    \/ \E c \in LoadCalls : \E r \in RootResponses(loads[c].url) : RootResponse(c, r)
    \/ \E c \in LoadCalls : TaskStart(c)
    \/ \E c \in LoadCalls : \E i \in InFlight(loads[c]) :
          \E r \in Responses(TaskUrl(loads[c], i)) : TaskReturn(c, i, r)
    \/ \E c \in LoadCalls : PathsJoined(c)
    \/ \E c \in LoadCalls : ParamsJoined(c)

SpecDepth == DepthInit /\ [][DepthNext]_vars /\ WF_vars(DepthNext)

-----------------------------------------------------------------------------
(* The fetch pool of one resolution with its tasks counted by position.    *)
(* The tasks of a phase fetch distinct URLs that are not in the cache, so   *)
(* they differ only in their position in _fetch_external: created (new),   *)
(* queued on the semaphore (wait), inside `async with sem` with the GET     *)
(* sent (flight), returned (done).                                         *)

\* gather returns in the counted pool
PoolJoined(p) == p.new = 0 /\ p.wait = 0 /\ p.flight = 0

\* A created task runs to its first suspension: semaphore, then the GET.
PoolTaskStart ==
    /\ pool.phase \in {"paths", "params"}
    /\ pool.new > 0
    /\ pool' = IF SemCanAcquire(pool.sem)
               THEN [pool EXCEPT !.new = @ - 1, !.flight = @ + 1, !.sem = @ - 1]
               ELSE [pool EXCEPT !.new = @ - 1, !.wait = @ + 1]
    /\ UNCHANGED <<slot, clock, loads, last, expected, pcalls, shared, estore>>

\* Variant: a GET that returns or raises leaves its slot taken.
PoolTaskReturnKeepsSlot ==
    /\ pool.phase \in {"paths", "params"}
    /\ pool.flight > 0
    /\ pool' = [pool EXCEPT !.done = @ + 1, !.flight = @ - 1]
    /\ UNCHANGED <<slot, clock, loads, last, expected, pcalls, shared, estore>>

\* A GET returns or raises: the slot is released on both paths, and the longest
\* waiting task takes it.
PoolTaskReturn ==
    /\ pool.phase \in {"paths", "params"}
    /\ pool.flight > 0
    /\ pool' = IF pool.wait > 0
               THEN [pool EXCEPT !.done = @ + 1, !.wait = @ - 1]
               ELSE [pool EXCEPT !.done = @ + 1, !.flight = @ - 1, !.sem = @ + 1]
    /\ UNCHANGED <<slot, clock, loads, last, expected, pcalls, shared, estore>>

\* gather of phase 2 returns; phase 3 finds n parameter URLs.
PoolPathsJoined(n) ==
    /\ pool.phase = "paths"
    /\ PoolJoined(pool)
    /\ pool' = IF n = 0
               THEN [pool EXCEPT !.phase = "inlined"]
               ELSE [PoolFrame("params", n) EXCEPT !.sem = pool.sem]
    /\ UNCHANGED <<slot, clock, loads, last, expected, pcalls, shared, estore>>

\* gather of phase 4 returns; phase 5 runs.
PoolParamsJoined ==
    /\ pool.phase = "params"
    /\ PoolJoined(pool)
    /\ pool' = [pool EXCEPT !.phase = "inlined"]
    /\ UNCHANGED <<slot, clock, loads, last, expected, pcalls, shared, estore>>

PoolInit ==
    /\ slot = NoneVal
    /\ clock = 0
    /\ loads = [c \in LoadCalls |-> IdleFrame]
    /\ last = Event("start", 0, NoneVal)
    /\ expected = NoneVal
    /\ \E n \in 1..PoolPathTasks : pool = PoolFrame("paths", n)
    /\ pcalls = NoCalls
    /\ shared = [verify |-> TRUE]
    /\ estore = NoStore

PoolNext ==
    \/ PoolTaskStart
    \/ PoolTaskReturn
    \/ \E n \in 0..PoolParamTasks : PoolPathsJoined(n)
    \/ PoolParamsJoined

SpecPool == PoolInit /\ [][PoolNext]_vars

\* The fetch pool with its scheduling: the event loop runs every task that is
\* ready (a created task reaches its first await, a joined gather resumes the
\* caller), and every GET returns or raises, at the latest on its timeout.
SpecPoolFair ==
    /\ PoolInit
    /\ [][PoolNext]_vars
    /\ WF_vars(PoolTaskStart)
    /\ WF_vars(PoolTaskReturn)
    /\ WF_vars(\E n \in 0..PoolParamTasks : PoolPathsJoined(n))
    /\ WF_vars(PoolParamsJoined)

-----------------------------------------------------------------------------
(* The proxy engine (app/services/proxy_service.py, app/routers/proxy.py).  *)
(* A path template and a path-parameter key or value are strings as the     *)
(* sequences of their characters; path_params is the sequence of its        *)
(* (key, value) items in insertion order.  Header maps are functions from   *)
(* header names to values.  query_params, body and timeout pass through to  *)
(* the transport unchanged and are left out; duration_ms is not modelled.   *)

HOP_BY_HOP ==
    { "connection", "keep-alive", "proxy-authenticate", "proxy-authorization",
      "te", "trailers", "transfer-encoding", "upgrade" }

\* s[i:].startswith(pat), positions counted from 1
StartsWithAt(s, i, pat) ==
    i + Len(pat) - 1 <= Len(s) /\ SubSeq(s, i, i + Len(pat) - 1) = pat

\* str.replace(old, new) for a non-empty old: every occurrence, left to right,
\* the search going on after the end of the one just replaced
RECURSIVE ReplaceFrom(_, _, _, _)
ReplaceFrom(s, i, old, new) ==
    IF i > Len(s) THEN <<>>
    ELSE IF StartsWithAt(s, i, old) THEN new \o ReplaceFrom(s, i + Len(old), old, new)
    ELSE <<s[i]>> \o ReplaceFrom(s, i + 1, old, new)

StrReplace(s, old, new) == ReplaceFrom(s, 1, old, new)

\* The characters urllib.parse.quote never encodes, among those that occur.
Unreserved ==
    { "a", "b", "c", "d", "i", "m", "s", "t", "x", "y", "z", "0", "1", "7",
      "_", ".", "-", "~" }

\* The %XX form of a character that is not unreserved (UTF-8, upper-case hex).
PercentCode(ch) ==
    CASE ch = "/" -> <<"%", "2", "F">>
      [] ch = " " -> <<"%", "2", "0">>
      [] ch = "{" -> <<"%", "7", "B">>
      [] ch = "}" -> <<"%", "7", "D">>
      [] ch = "%" -> <<"%", "2", "5">>
      [] ch = ":" -> <<"%", "3", "A">>

\* Variant: the value is put in as it is.
QuoteNothing(v) == v

\* urllib.parse.quote(str(value), safe="")
RECURSIVE Quote(_)
Quote(v) ==
    IF v = <<>> THEN <<>>
    ELSE (IF Head(v) \in Unreserved THEN <<Head(v)>> ELSE PercentCode(Head(v)))
         \o Quote(Tail(v))

\* One loop round per item of path_params:
\* path = path.replace("{" + key + "}", quote(value))
RECURSIVE _substitute_path_params(_, _)
_substitute_path_params(path, path_params) ==
    IF path_params = <<>> THEN path
    ELSE LET key == Head(path_params).k
             value == Head(path_params).v
         IN  _substitute_path_params(
                 StrReplace(path, <<"{">> \o key \o <<"}">>, Quote(value)),
                 Tail(path_params))

\* base_url.rstrip("/")
RECURSIVE RStripSlash(_)
RStripSlash(base_url) ==
    IF base_url # <<>> /\ base_url[Len(base_url)] = "/"
    THEN RStripSlash(SubSeq(base_url, 1, Len(base_url) - 1))
    ELSE base_url

_build_headers(req, env) ==
    LET auth == env.auth
        injected ==
            IF auth.type = "bearer" /\ Truthy(auth.token)
            THEN "Authorization" :> (auth.bearer_prefix \o " " \o auth.token.s)
            ELSE IF auth.type = "api_key" /\ Truthy(auth.token)
            THEN (IF Truthy(auth.header_name) THEN auth.header_name.s ELSE "X-API-Key")
                     :> auth.token.s
            ELSE <<>>
        kept == {k \in DOMAIN req.headers : Lower(k) \notin HOP_BY_HOP}
    IN  [k \in kept |-> req.headers[k]] @@ injected

\* httpx.Headers.items(): the names lower-cased
HeaderItems(headers) ==
    [lk \in {Lower(k) : k \in DOMAIN headers} |->
        headers[CHOOSE k \in DOMAIN headers : Lower(k) = lk]]

_filter_headers(headers) ==
    LET items == HeaderItems(headers)
    IN  [k \in {n \in DOMAIN items : Lower(n) \notin HOP_BY_HOP} |-> items[k]]

\* "json" in content_type
CtypeHasJson(ctype) == ctype \in {"application/json", "application/problem+json"}

_normalize_response_body(resp) ==
    LET items == HeaderItems(resp.headers)
        content_type == IF "content-type" \in DOMAIN items THEN items["content-type"] ELSE ""
    IN  IF CtypeHasJson(content_type) /\ JsonLoads(resp.text).ok
        THEN JsonLoads(resp.text).val
        ELSE [t |-> "text", text |-> resp.text]

\* Variant: credentials are attached whenever a username is stored.
BasicAuthAnyType(env) ==
    IF Truthy(env.auth.username)
    THEN [username |-> env.auth.username.s,
          password |-> IF Truthy(env.auth.password) THEN env.auth.password.s ELSE ""]
    ELSE NoneVal

\* execute_proxy: the transport-level basic credentials
BasicAuth(env) ==
    IF env.auth.type = "basic" /\ Truthy(env.auth.username)
    THEN [username |-> env.auth.username.s,
          password |-> IF Truthy(env.auth.password) THEN env.auth.password.s ELSE ""]
    ELSE NoneVal

\* Variant: every call goes through the shared client.
UsesTmpClientNever(env) == FALSE

\* execute_proxy: `if not env.verify_ssl` selects a per-call client
UsesTmpClient(env) == ~env.verify_ssl

ProxyRequest(environment_id, method, path, path_params, headers) ==
    [ environment_id |-> environment_id, method |-> method, path |-> path,
      path_params |-> path_params, headers |-> headers ]

ProxyResponse(resp, url) ==
    [ status_code |-> resp.status,
      headers |-> _filter_headers(resp.headers),
      body |-> _normalize_response_body(resp),
      url |-> url ]

\* The calls, requests and upstream outcomes explored.
ProxyCalls == {1, 2}
ProxyEnvIds == DOMAIN Envs \cup {"missing"}
CallerHeaders ==
    { <<>>,
      "Authorization" :> "caller",
      "authorization" :> "caller",
      "X-API-Key" :> "caller" @@ "Connection" :> "close",
      "Proxy-Authorization" :> "caller" @@ "X-Trace" :> "1" }
Item(k, v) == [k |-> k, v |-> v]
ItemsPath == <<"/", "i", "/", "{", "i", "d", "}">>
ProxyRequests ==
    { ProxyRequest(e, "get", ItemsPath, <<Item(<<"i", "d">>, <<"7">>)>>, h) :
        e \in ProxyEnvIds, h \in CallerHeaders }

UpResponse(status, headers, text) ==
    [kind |-> "response", status |-> status, headers |-> headers, text |-> text]
UpFailure(kind) == [kind |-> kind, status |-> 0, headers |-> <<>>, text |-> Garbage]
Upstream ==
    { UpResponse(200, "Content-Type" :> "application/json" @@ "Connection" :> "keep-alive"
                      @@ "X-Up" :> "1", Text("json", Dict("name" :> Str("ok")))),
      UpResponse(500, "Content-Type" :> "text/plain" @@ "Transfer-Encoding" :> "chunked",
                 Garbage),
      UpFailure("timeout"),
      UpFailure("connect_error"),
      UpFailure("http_error") }

\* attempts counts the upstream dispatches of the call, outcome is what the
\* dispatch returned or raised.  tmp is the state of the call's own client
\* (none, open, closed) and client the identity of that object while it is
\* open, 0 otherwise.
IdleCall ==
    [ pc |-> "idle", req |-> NoneVal, env |-> NoneVal, url |-> NoneVal,
      headers |-> <<>>, auth |-> NoneVal, via |-> "none", tmp |-> "none",
      client |-> 0,
      attempts |-> 0, outcome |-> NoneVal, status |-> 0, resp |-> NoneVal ]

\* The identities of the per-call clients that are open.
OpenClients(calls) == {calls[c].client : c \in {d \in DOMAIN calls : calls[d].tmp = "open"}}

\* Variant: one unverified client is kept and handed to every unverified call.
NewClientPooled(calls) == 1

\* httpx.AsyncClient(verify=False): a new object, distinct from every open one
NewClient(calls) ==
    CHOOSE n \in 1..(Cardinality(DOMAIN calls) + 1) :
        /\ n \notin OpenClients(calls)
        /\ \A k \in 1..(n - 1) : k \in OpenClients(calls)

\* Variant: every exception of the dispatch is reported as unreachable.
ProxyStatusAllUnreachable(o) == IF o.kind = "response" THEN 200 ELSE 502

\* The status of POST /api/proxy/execute for upstream outcome o:
\* TimeoutException -> ProxyTimeoutError -> 504; ConnectError and any other
\* HTTPError -> ProxyConnectionError -> 502; a response of any status -> 200.
ProxyStatus(o) ==
    IF o.kind = "timeout" THEN 504
    ELSE IF o.kind \in {"connect_error", "http_error"} THEN 502
    ELSE 200

\* POST /api/proxy/execute arrives: environment lookup, then execute_proxy up to
\* the dispatch of the upstream request.
ProxyStart(c, req) ==
    /\ pcalls[c].pc \in {"idle", "done"}
    /\ LET env == StoreGet(req.environment_id)
       IN  pcalls' = [pcalls EXCEPT ![c] =
             IF env = NoneVal
             THEN [IdleCall EXCEPT !.pc = "done", !.req = req, !.status = 404]
             ELSE [IdleCall EXCEPT
                     !.pc = "dispatch", !.req = req, !.env = env,
                     !.url = [ base |-> RStripSlash(env.base_url),
                               path |-> _substitute_path_params(req.path, req.path_params),
                               method |-> Upper(req.method) ],
                     !.headers = _build_headers(req, env),
                     !.auth = BasicAuth(env),
                     !.attempts = 1,
                     !.via = IF UsesTmpClient(env) THEN "tmp" ELSE "shared",
                     !.tmp = IF UsesTmpClient(env) THEN "open" ELSE "none",
                     !.client = IF UsesTmpClient(env)
                                THEN NewClient([pcalls EXCEPT ![c] = IdleCall])
                                ELSE 0]]
    /\ UNCHANGED <<slot, clock, loads, last, expected, pool, shared, estore>>

\* Variant: a failed dispatch is sent again.
ProxyReturnRetry(c, o) ==
    /\ pcalls[c].pc = "dispatch"
    /\ LET f == pcalls[c]
       IN  pcalls' = [pcalls EXCEPT ![c] =
             IF o.kind # "response"
             THEN [f EXCEPT !.attempts = @ + 1]
             ELSE [f EXCEPT !.pc = "done", !.outcome = o, !.status = 200,
                            !.tmp = IF f.tmp = "open" THEN "closed" ELSE f.tmp,
                            !.client = 0,
                            !.resp = ProxyResponse(o, f.url)]]
    /\ UNCHANGED <<slot, clock, loads, last, expected, pool, shared, estore>>

\* The upstream request returns or raises: the per-call client is closed, the
\* outcome classified; an exception ends the call, there is no second dispatch.
ProxyReturn(c, o) ==
    /\ pcalls[c].pc = "dispatch"
    /\ LET f == pcalls[c]
           closed == IF f.tmp = "open" THEN "closed" ELSE f.tmp
       IN  pcalls' = [pcalls EXCEPT ![c] =
             [f EXCEPT !.pc = "done", !.tmp = closed, !.client = 0, !.outcome = o,
                       !.status = ProxyStatus(o),
                       !.resp = IF o.kind = "response"
                                THEN ProxyResponse(o, f.url) ELSE NoneVal]]
    /\ UNCHANGED <<slot, clock, loads, last, expected, pool, shared, estore>>

ProxyInit ==
    /\ slot = NoneVal
    /\ clock = 0
    /\ loads = [c \in LoadCalls |-> IdleFrame]
    /\ last = Event("start", 0, NoneVal)
    /\ expected = NoneVal
    /\ pool = NoPool
    /\ pcalls = [c \in ProxyCalls |-> IdleCall]
    /\ shared = [verify |-> TRUE]
    /\ estore = NoStore

ProxyNext ==
    \/ \E c \in ProxyCalls, req \in ProxyRequests : ProxyStart(c, req)
    \/ \E c \in ProxyCalls, o \in Upstream : ProxyReturn(c, o)

SpecProxy == ProxyInit /\ [][ProxyNext]_vars

-----------------------------------------------------------------------------
(* One proxy call over a range of path templates, path-parameter maps and    *)
(* base URLs.  The templates are OpenAPI path templates: braces occur only   *)
(* as the delimiters of a placeholder.                                       *)

UrlCalls == {1}
UrlEnvIds == {"e_bearer", "e_key", "e_basic"}
UrlTemplates ==
    { <<"/", "i", "t", "e", "m", "s", "/", "{", "i", "d", "}">>,
      <<"/", "{", "a", "}", "/", "{", "b", "}">>,
      <<"/", "x", "/", "{", "i", "d", "}", "/", "{", "i", "d", "}">>,
      <<"/", "s", "t", "a", "t", "s">> }
UrlParamMaps ==
    { <<>>,
      <<Item(<<"i", "d">>, <<"7">>)>>,
      <<Item(<<"i", "d">>, <<"a", "/", "b">>), Item(<<"z">>, <<"1">>)>>,
      <<Item(<<"a">>, <<"{", "b", "}">>), Item(<<"b">>, <<"x", " ", "y">>)>>,
      <<Item(<<"b">>, <<"{", "a", "}">>), Item(<<"a">>, <<"0">>)>>,
      <<Item(<<"a">>, <<>>)>> }
UrlRequests ==
    { ProxyRequest(e, "get", t, pp, <<>>) :
        e \in UrlEnvIds, t \in UrlTemplates, pp \in UrlParamMaps }

UrlInit ==
    /\ slot = NoneVal
    /\ clock = 0
    /\ loads = [c \in LoadCalls |-> IdleFrame]
    /\ last = Event("start", 0, NoneVal)
    /\ expected = NoneVal
    /\ pool = NoPool
    /\ pcalls = [c \in UrlCalls |-> IdleCall]
    /\ shared = [verify |-> TRUE]
    /\ estore = NoStore

UrlNext ==
    \/ \E c \in UrlCalls, req \in UrlRequests : ProxyStart(c, req)
    \/ \E c \in UrlCalls, o \in Upstream : ProxyReturn(c, o)

SpecUrl == UrlInit /\ [][UrlNext]_vars

-----------------------------------------------------------------------------
(* The environment store and the environments API                          *)
(* (app/services/store.py, app/routers/environments.py, app/models.py).     *)
(* A handler is split at its awaits: entering `async with self._lock`, the  *)
(* body of the locked section, and the file operations of _persist, so that *)
(* other calls and a crash of the process may fall between any two of them. *)
(* The store is run together with a twin that receives the same requests    *)
(* with other secret values.  created_at / updated_at are left out.         *)

StorePath == "environments.json"

\* Variant: the snapshot is written straight to the store's path.
WithSuffixSame(path) == path

\* self._path.with_suffix(".tmp")
WithSuffixTmp(path) == "environments.tmp"

\* A file: absent, or the items written so far and whether the text is complete.
Absent == [present |-> FALSE, complete |-> FALSE, items |-> <<>>]
FileOf(payload) == [present |-> TRUE, complete |-> TRUE, items |-> payload]

\* Variant: the lock is never waited for.
LockNeverBlocks(lock) == TRUE

\* asyncio.Lock.acquire returns at once: the lock is not held
LockCanAcquire(lock) == lock = 0

\* AuthConfig.model_dump(exclude_none=True): a plain mapping of the set fields
AuthDump(a) ==
    [t |-> "dict",
     d |-> [k \in {"type", "bearer_prefix"}
                  \cup {o \in {"token", "header_name", "username", "password"} :
                          a[o] # NoneVal} |-> a[k]]]

IsAuthModel(a) == "type" \in DOMAIN a

\* Variant: the projection copies the token.
from_env_with_token(env) ==
    IF ~IsAuthModel(env.auth) THEN [raised |-> "AttributeError"]
    ELSE [ id |-> env.id, name |-> env.name, base_url |-> env.base_url,
           verify_ssl |-> env.verify_ssl,
           auth |-> [ type |-> env.auth.type, header_name |-> env.auth.header_name,
                      bearer_prefix |-> env.auth.bearer_prefix,
                      username |-> env.auth.username,
                      has_token |-> env.auth.token,
                      has_password |-> env.auth.password # NoneVal ] ]

\* EnvironmentPublic.from_env.  An auth replaced by update() is a plain mapping
\* (model_copy does not validate), and env.auth.type raises on it.
from_env(env) ==
    IF ~IsAuthModel(env.auth) THEN [raised |-> "AttributeError"]
    ELSE [ id |-> env.id, name |-> env.name, base_url |-> env.base_url,
           verify_ssl |-> env.verify_ssl,
           auth |-> [ type |-> env.auth.type, header_name |-> env.auth.header_name,
                      bearer_prefix |-> env.auth.bearer_prefix,
                      username |-> env.auth.username,
                      has_token |-> env.auth.token # NoneVal,
                      has_password |-> env.auth.password # NoneVal ] ]

HttpResponse(status, body) == [status |-> status, body |-> body]
NotFound == HttpResponse(404, "Environment not found")
ServerError == HttpResponse(500, "Internal Server Error")

\* The response of a handler that returns from_env of one environment.
PublicResponse(status, env) ==
    IF "raised" \in DOMAIN from_env(env) THEN ServerError
    ELSE HttpResponse(status, from_env(env))

\* list_environments: the projections in the order of _data.values()
ListResponse(data, order) ==
    IF \E i \in DOMAIN order : "raised" \in DOMAIN from_env(data[order[i]])
    THEN ServerError
    ELSE HttpResponse(200, [i \in DOMAIN order |-> from_env(data[order[i]])])

\* Environment(...) of create(); the id is a fresh uuid
NewEnvironment(id, body) ==
    [ id |-> id, name |-> body.name, base_url |-> body.base_url,
      auth |-> body.auth, verify_ssl |-> body.verify_ssl ]

\* env.model_copy(update=data.model_dump(exclude_none=True))
UpdatedEnvironment(env, body) ==
    [ id |-> env.id,
      name |-> IF body.name = NoneVal THEN env.name ELSE body.name.s,
      base_url |-> IF body.base_url = NoneVal THEN env.base_url ELSE body.base_url.s,
      auth |-> IF body.auth = NoneVal THEN env.auth ELSE AuthDump(body.auth),
      verify_ssl |-> IF body.verify_ssl = NoneVal THEN env.verify_ssl
                     ELSE body.verify_ssl.b ]

\* The payload of _persist: the dump of every stored environment, in order.
Payload(data, order) == [i \in DOMAIN order |-> data[order[i]]]

Without(order, id) == SelectSeq(order, LAMBDA x : x # id)

\* The same request with other values for the secrets that are present.
TwinSecret(x) == IF x = NoneVal THEN NoneVal ELSE Str(x.s \o "'")
TwinAuth(a) ==
    IF a = NoneVal THEN NoneVal
    ELSE [a EXCEPT !.token = TwinSecret(@), !.password = TwinSecret(@)]
TwinBody(body) == IF body = NoneVal THEN NoneVal ELSE [body EXCEPT !.auth = TwinAuth(@)]

\* The calls, ids and request bodies explored.
EnvCalls == {1, 2}
EnvIdPool == <<"e1", "e2">>

\* Variant: the first id is handed out again.
FreshIdReused(issued) == EnvIdPool[1]

\* uuid.uuid4().hex, the default of Environment.id: the next unused id
FreshId(issued) == EnvIdPool[issued + 1]
EnvironmentCreate(name, base_url, auth, verify_ssl) ==
    [name |-> name, base_url |-> base_url, auth |-> auth, verify_ssl |-> verify_ssl]
EnvironmentUpdate(name, base_url, auth, verify_ssl) ==
    [name |-> name, base_url |-> base_url, auth |-> auth, verify_ssl |-> verify_ssl]
CreateBodies ==
    { EnvironmentCreate("n1", "https://api.test",
        AuthConfig("basic", Str("s1"), NoneVal, "Bearer", Str("u"), Str("p1")), FALSE) }
UpdateBodies ==
    { EnvironmentUpdate(Str("n2"), NoneVal, NoneVal, NoneVal),
      EnvironmentUpdate(NoneVal, NoneVal,
        AuthConfig("bearer", Str("s3"), NoneVal, "Bearer", NoneVal, NoneVal), NoneVal) }
EnvRequests ==
    { [op |-> "create", id |-> "", body |-> b] : b \in CreateBodies }
    \cup { [op |-> "update", id |-> "e1", body |-> b] : b \in UpdateBodies }
    \cup { [op |-> "get", id |-> i, body |-> NoneVal] : i \in {"e1", "e2"} }
    \cup { [op |-> "delete", id |-> "e1", body |-> NoneVal],
           [op |-> "get_all", id |-> "", body |-> NoneVal] }

IdleEnvCall == [pc |-> "idle", req |-> NoneVal, env |-> NoneVal, tenv |-> NoneVal]

\* The latest answer of the API: the request, the response, the response of the
\* twin, and whether the handler read _data while a mutation was not yet persisted.
Reply(req, resp, tresp, raced) ==
    [req |-> req, resp |-> resp, tresp |-> tresp, raced |-> raced]
NoReply == Reply(NoneVal, NoneVal, NoneVal, FALSE)

\* The calls inside a locked section, and those whose mutation is not yet persisted.
InSection(calls) == {c \in DOMAIN calls : calls[c].pc \in {"locked", "persist", "writing", "written"}}
Unpersisted(calls) == {c \in DOMAIN calls : calls[c].pc \in {"persist", "writing", "written"}}

StoreInit ==
    [ data |-> <<>>, twin |-> <<>>, order |-> <<>>, lock |-> 0, issued |-> 0,
      deleted |-> {},
      fs |-> (StorePath :> Absent) @@ ("environments.tmp" :> Absent),
      snap |-> [prev |-> Absent, new |-> Absent],
      crashed |-> FALSE,
      last |-> NoReply,
      calls |-> [c \in EnvCalls |-> IdleEnvCall] ]

\* A request of the environments API arrives: create() builds the Environment,
\* then the handler enters `async with self._lock` or queues on it.
EnvBegin(c, req) ==
    /\ ~estore.crashed
    /\ estore.calls[c].pc = "idle"
    /\ req.op = "create" => estore.issued < Len(EnvIdPool)
    /\ LET id == IF req.op = "create" THEN FreshId(estore.issued) ELSE req.id
           free == LockCanAcquire(estore.lock)
           frame == [IdleEnvCall EXCEPT
                       !.pc = IF free THEN "locked" ELSE "wait",
                       !.req = [req EXCEPT !.id = id],
                       !.env = IF req.op = "create"
                               THEN NewEnvironment(id, req.body) ELSE NoneVal,
                       !.tenv = IF req.op = "create"
                                THEN NewEnvironment(id, TwinBody(req.body)) ELSE NoneVal]
       IN  estore' = [estore EXCEPT
                        !.calls[c] = frame,
                        !.issued = IF req.op = "create" THEN @ + 1 ELSE @,
                        !.lock = IF free THEN c ELSE @]
    /\ UNCHANGED <<slot, clock, loads, last, expected, pool, pcalls, shared>>

\* A queued handler gets the lock.
EnvAcquire(c) ==
    /\ ~estore.crashed
    /\ estore.calls[c].pc = "wait"
    /\ LockCanAcquire(estore.lock)
    /\ estore' = [estore EXCEPT !.calls[c].pc = "locked", !.lock = c]
    /\ UNCHANGED <<slot, clock, loads, last, expected, pool, pcalls, shared>>

\* The store after call c has released the lock and its handler has answered.
\* deleted is history: the ids whose delete has returned True.
EnvReturn(st, c, resp, tresp, raced) ==
    [st EXCEPT !.lock = 0, !.calls[c] = IdleEnvCall,
               !.last = Reply(st.calls[c].req, resp, tresp, raced)]

\* The locked section up to _persist: get and get_all read and return, update
\* and delete of an unknown id return, create, update and delete change _data.
EnvSection(c) ==
    /\ ~estore.crashed
    /\ estore.calls[c].pc = "locked"
    /\ LET f == estore.calls[c]
           id == f.req.id
           data == estore.data
           twin == estore.twin
           known == id \in DOMAIN data
           raced == Unpersisted(estore.calls) \ {c} # {}
       IN  estore' =
             IF f.req.op = "get_all"
             THEN EnvReturn(estore, c, ListResponse(data, estore.order),
                            ListResponse(twin, estore.order), raced)
             ELSE IF f.req.op = "get"
             THEN IF known
                  THEN EnvReturn(estore, c, PublicResponse(200, data[id]),
                                 PublicResponse(200, twin[id]), raced)
                  ELSE EnvReturn(estore, c, NotFound, NotFound, raced)
             ELSE IF f.req.op = "create"
             THEN [estore EXCEPT !.data = (id :> f.env) @@ @,
                                 !.twin = (id :> f.tenv) @@ @,
                                 !.order = Append(@, id),
                                 !.calls[c].pc = "persist"]
             ELSE IF ~known
             THEN EnvReturn(estore, c, NotFound, NotFound, FALSE)
             ELSE IF f.req.op = "update"
             THEN [estore EXCEPT
                     !.data[id] = UpdatedEnvironment(@, f.req.body),
                     !.twin[id] = UpdatedEnvironment(@, TwinBody(f.req.body)),
                     !.calls[c] = [f EXCEPT !.pc = "persist",
                        !.env = UpdatedEnvironment(data[id], f.req.body),
                        !.tenv = UpdatedEnvironment(twin[id], TwinBody(f.req.body))]]
             ELSE [estore EXCEPT
                     !.data = [k \in DOMAIN data \ {id} |-> data[k]],
                     !.twin = [k \in DOMAIN twin \ {id} |-> twin[k]],
                     !.order = Without(@, id),
                     !.calls[c].pc = "persist"]
    /\ UNCHANGED <<slot, clock, loads, last, expected, pool, pcalls, shared>>

\* _persist: the payload is built and the temporary file opened for writing.
PersistOpen(c) ==
    /\ ~estore.crashed
    /\ estore.calls[c].pc = "persist"
    /\ LET tmp == WithSuffixTmp(StorePath)
           payload == Payload(estore.data, estore.order)
       IN  estore' = [estore EXCEPT
                        !.snap = [prev |-> estore.fs[StorePath], new |-> FileOf(payload)],
                        !.fs[tmp] = [present |-> TRUE, complete |-> FALSE, items |-> <<>>],
                        !.calls[c].pc = "writing"]
    /\ UNCHANGED <<slot, clock, loads, last, expected, pool, pcalls, shared>>

\* _persist: write_text puts out the next part of the text, or the last.
PersistWrite(c) ==
    /\ ~estore.crashed
    /\ estore.calls[c].pc = "writing"
    /\ LET tmp == WithSuffixTmp(StorePath)
           payload == estore.snap.new.items
           n == Len(estore.fs[tmp].items)
       IN  estore' =
             IF n < Len(payload)
             THEN [estore EXCEPT !.fs[tmp].items = Append(@, payload[n + 1])]
             ELSE [estore EXCEPT !.fs[tmp].complete = TRUE, !.calls[c].pc = "written"]
    /\ UNCHANGED <<slot, clock, loads, last, expected, pool, pcalls, shared>>

\* _persist: os.replace(tmp, path); then the lock is released and the handler
\* answers.
PersistReplace(c) ==
    /\ ~estore.crashed
    /\ estore.calls[c].pc = "written"
    /\ LET tmp == WithSuffixTmp(StorePath)
           f == estore.calls[c]
           fs1 == [estore.fs EXCEPT ![StorePath] = estore.fs[tmp]]
           fs2 == IF tmp = StorePath THEN fs1 ELSE [fs1 EXCEPT ![tmp] = Absent]
           deleted == HttpResponse(200, "deleted")
           st == [estore EXCEPT !.fs = fs2,
                                !.deleted = IF f.req.op = "delete" THEN @ \cup {f.req.id}
                                            ELSE @]
       IN  estore' =
             IF f.req.op = "create"
             THEN EnvReturn(st, c, PublicResponse(201, f.env),
                            PublicResponse(201, f.tenv), FALSE)
             ELSE IF f.req.op = "update"
             THEN EnvReturn(st, c, PublicResponse(200, f.env),
                            PublicResponse(200, f.tenv), FALSE)
             ELSE EnvReturn(st, c, deleted, deleted, FALSE)
    /\ UNCHANGED <<slot, clock, loads, last, expected, pool, pcalls, shared>>

\* The process is killed.
Crash ==
    /\ ~estore.crashed
    /\ estore' = [estore EXCEPT !.crashed = TRUE]
    /\ UNCHANGED <<slot, clock, loads, last, expected, pool, pcalls, shared>>

EnvInit ==
    /\ slot = NoneVal
    /\ clock = 0
    /\ loads = [c \in LoadCalls |-> IdleFrame]
    /\ last = Event("start", 0, NoneVal)
    /\ expected = NoneVal
    /\ pool = NoPool
    /\ pcalls = NoCalls
    /\ shared = [verify |-> TRUE]
    /\ estore = StoreInit

EnvNext ==
    \/ \E c \in EnvCalls, req \in EnvRequests : EnvBegin(c, req)
    \/ \E c \in EnvCalls : EnvAcquire(c)
    \/ \E c \in EnvCalls : EnvSection(c)
    \/ \E c \in EnvCalls : PersistOpen(c)
    \/ \E c \in EnvCalls : PersistWrite(c)
    \/ \E c \in EnvCalls : PersistReplace(c)
    \/ Crash

SpecEnv == EnvInit /\ [][EnvNext]_vars

-----------------------------------------------------------------------------
(* Properties of the spec slot and the load pipeline (under Spec) *)

LoadStepKinds == {"load_start", "load_step"}

\* C1: a load that fails (404, 422, 502) leaves the spec slot as it was: every
\* step of a load call other than its successful completion leaves the slot
\* unchanged, so a loaded spec stays loaded and an empty slot stays empty.
C1_FailedLoadKeepsSlot ==
    [][ (\/ last'.kind \in LoadStepKinds
         \/ (last'.kind = "load" /\ last'.status \in {404, 422, 502}))
        => slot' = slot ]_vars

\* A load has just failed with 502 while an earlier spec is still in the slot.
C1_Witness ==
    /\ last.kind = "load" /\ last.status = 502
    /\ slot # NoneVal /\ slot.source_url = U_MAIN
    /\ loads[1].url = U_PLAIN

\* Number of requests for URL u in the request log of a call.
Requests(f, u) == Cardinality({k \in DOMAIN f.sent : f.sent[k].url = u})

\* C2: during one load every distinct URL is requested at most once, also
\* when several path entries reference it and their fetches start together.
C2_EachUrlFetchedOnce ==
    \A c \in LoadCalls : \A k \in DOMAIN loads[c].sent :
        Requests(loads[c], loads[c].sent[k].url) <= 1

\* C4: phase barriers.  The step that leaves the path-item fetch phase (parameter
\* discovery) and every step that writes the root document happen only when no
\* fetch of the phase is in flight, waiting or unstarted; while a fetch is in
\* flight the documents already fetched are not rewritten.
C4_PhaseBarriers ==
    [][ \A c \in LoadCalls :
          LET f == loads[c]
              busy == \E i \in DOMAIN f.tasks : f.tasks[i] # "done"
          IN  f.pc \in {"paths", "params"} /\ busy
              => /\ loads'[c].pc = f.pc
                 /\ loads'[c].spec = f.spec
                 /\ loads'[c].purls = f.purls
                 /\ SubSeq(loads'[c].items, 1, Len(f.items)) = f.items
                 /\ slot' = slot \/ last'.kind = "delete" ]_vars

\* A parameter fetch is in flight after the path-item phase has been joined.
C4_Witness ==
    /\ loads[1].pc = "params"
    /\ InFlight(loads[1]) # {}
    /\ Len(loads[1].items) = 2

\* The paths of the root document whose external document was fetched non-empty.
ResolvedPaths(f) == {f.items[k].path : k \in {j \in DOMAIN f.items : NonEmpty(f.items[j].doc)}}

\* C5: a valid root makes the load succeed whatever happens to the auxiliary
\* documents: a call whose root parsed to a mapping with an openapi or swagger
\* key ends with 200; every failed auxiliary fetch is recorded as the empty
\* object; at completion the paths whose document failed keep their reference
\* stub, the paths that are not external are untouched, and the others are
\* replaced by their fetched document.
C5_AuxFailuresAreLenient ==
    /\ [](\A c \in LoadCalls :
            LET f == loads[c]
            IN  /\ (f.pc = "done" /\ f.root.t = "dict"
                    /\ ({"openapi", "swagger"} \cap DOMAIN f.root.d # {}))
                   => f.status = 200
                /\ \A u \in DOMAIN f.fetched : ~f.fetched[u] => f.cache[u] = EmptyDict)
    /\ [][ \A c \in LoadCalls :
             LET f == loads[c]
             IN  (f.pc \in {"paths", "params"} /\ loads'[c].pc = "done")
                 => /\ loads'[c].status = 200
                    /\ slot'.source_url = f.url
                    /\ \A p \in DOMAIN f.spec.d["paths"].d :
                         IF p \in ResolvedPaths(f)
                         THEN /\ slot'.raw.d["paths"].d[p] # f.spec.d["paths"].d[p]
                              /\ ~Has(slot'.raw.d["paths"].d[p], "$ref")
                         ELSE slot'.raw.d["paths"].d[p] = f.spec.d["paths"].d[p] ]_vars

\* A load has succeeded although the document of /a failed and a parameter
\* document failed: /a keeps its stub, /b is inlined, /c is untouched.
C5_Witness ==
    /\ last.kind = "load" /\ last.status = 200
    /\ slot.source_url = U_MAIN
    /\ slot.raw.d["paths"].d["/a"] = RootMain.d["paths"].d["/a"]
    /\ Has(slot.raw.d["paths"].d["/b"], "get")
    /\ EmptyDict \in {slot.raw.d["paths"].d["/b"].d["get"].d["parameters"].l[k] : k \in 1..3}
    /\ Len(slot.endpoints) = 2

\* C6: a root that parses to a mapping without an openapi or swagger key makes the
\* load fail with 422, and no external document has been requested by then.
C6_MissingKeyFails ==
    \A c \in LoadCalls :
        LET f == loads[c]
        IN  (f.root.t = "dict" /\ ~Has(f.root, "openapi") /\ ~Has(f.root, "swagger"))
            => /\ f.pc = "done"
               /\ f.status = 422
               /\ Len(f.sent) = 1
               /\ f.sent[1].url = f.url

\* The root without the key, which has an external path-item ref, has been
\* refused with 422.
C6_Witness ==
    /\ loads[1].pc = "done" /\ loads[1].status = 422
    /\ loads[1].root = RootNoKey
    /\ Phase1External(loads[1].root, loads[1].url) # <<>>
    /\ last.kind = "load" /\ last.status = 422

\* C7: the slot starts empty; GET answers {"loaded": false} exactly when no load
\* has succeeded since the start or the latest DELETE and otherwise the
\* LoadedSpec of the latest successful load; GET does not change the slot;
\* DELETE leaves it empty.
C7_SlotLifecycle ==
    /\ [](/\ last.kind = "start" => slot = NoneVal
          /\ last.kind = "get"
               => last.body = (IF expected = NoneVal THEN NotLoaded ELSE expected)
          /\ last.kind = "delete" => slot = NoneVal)
    /\ [][last'.kind = "get" => slot' = slot]_vars

\* GET has answered with the spec of the second successful load.
C7_Witness ==
    /\ last.kind = "get"
    /\ last.body.t = "LoadedSpec"
    /\ last.body.loaded_at = 1
    /\ last.body = slot

\* The verbs of HTTP_METHODS in upper case.
UpperVerbs == {"GET", "POST", "PUT", "PATCH", "DELETE", "HEAD", "OPTIONS", "TRACE"}

\* C15: every endpoint of the LoadedSpec in the slot has one of the eight verbs in
\* upper case as method and a key of the path table of the same LoadedSpec's raw
\* document as path.
C15_EndpointsWellFormed ==
    slot # NoneVal =>
        \A i \in DOMAIN slot.endpoints :
            /\ slot.endpoints[i].method \in UpperVerbs
            /\ slot.endpoints[i].path \in DOMAIN slot.raw.d["paths"].d

\* A spec with an upper-case method key and a non-method key is loaded, and one
\* with inlined external path items.
C15_Witness ==
    /\ slot # NoneVal
    /\ slot.source_url = U_PLAIN
    /\ Len(slot.endpoints) = 2
    /\ slot.endpoints[2].method = "GET" /\ slot.endpoints[2].path = "/d"
    /\ "GET" \in DOMAIN slot.raw.d["paths"].d["/d"].d

\* The catalog of the load of frame f had the document of item i been written
\* inline at its path in the root, with the same answers of the network.
InlineVariantCatalog(f, i) ==
    LET it == f.items[i]
        root == Put(f.spec, "paths", Put(Get(f.spec, "paths", EmptyDict), it.path, it.doc))
        others == SelectSeq(f.items, LAMBDA x : x.path # it.path)
    IN  _flatten_endpoints(
            Put(root, "paths", Phase5Inline(root.d["paths"], others, f.cache)))

\* C16: when a load completes, its catalog equals the catalog of the load of the
\* root that has a successfully fetched path-item document inline at its path.
C16_InliningEquivalence ==
    [][ \A c \in DOMAIN loads :
          (loads[c].pc \in {"paths", "params"} /\ loads'[c].pc = "done"
           /\ loads'[c].status = 200)
          => \A i \in DOMAIN loads[c].items :
               NonEmpty(loads[c].items[i].doc)
               => slot'.endpoints = InlineVariantCatalog(loads[c], i) ]_vars

\* C17: no parameter of an endpoint of the LoadedSpec in the slot has a schema
\* with a `$ref` key at its top level.
C17_NoResidualRef ==
    slot # NoneVal =>
        \A i \in DOMAIN slot.endpoints :
            \A j \in DOMAIN slot.endpoints[i].parameters :
                ~Has(slot.endpoints[i].parameters[j].schema, "$ref")

\* C22: when a load completes, every external-ref parameter of an operation of a
\* fetched path-item document is, at its position in the inlined parameter
\* list, the fetched document when its fetch succeeded and the original
\* reference object when its fetch failed.
C22_InliningFallback ==
    [][ \A c \in DOMAIN loads :
          (loads[c].pc \in {"paths", "params"} /\ loads'[c].pc = "done"
           /\ loads'[c].status = 200)
          => \A i \in DOMAIN loads[c].items :
               LET f == loads[c]
                   it == f.items[i]
               IN  NonEmpty(it.doc)
                   => \A m \in HTTP_METHODS \cap DOMAIN it.doc.d :
                        IsDict(it.doc.d[m])
                        => LET ps == GetList(it.doc.d[m], "parameters")
                               out == slot'.raw.d["paths"].d[it.path].d[m].d["parameters"].l
                           IN  /\ Len(out) = Len(ps)
                               /\ \A k \in DOMAIN ps :
                                    IsExternalRefParam(ps[k])
                                    => LET u == UrlJoin(BaseOf(it.url), ps[k].d["$ref"])
                                       IN  IF u \in DOMAIN f.fetched /\ f.fetched[u]
                                           THEN out[k] = f.cache[u]
                                           ELSE out[k] = ps[k] ]_vars

\* C23: a load whose root answer is not declared YAML (content type without
\* "yaml", URL not ending in .yaml or .yml) and whose body is no JSON ends with
\* a parse failure (422) only if the YAML parse of the same body fails, yields
\* a non-mapping, or yields a mapping without an openapi or swagger key.
C23_YamlFallback ==
    \A c \in DOMAIN loads :
        LET f == loads[c]
        IN  (/\ f.pc = "done"
             /\ f.resp # NoneVal
             /\ IsSuccess(f.resp)
             /\ ~CtypeHasYaml(f.resp.ctype) /\ ~EndsWithYaml(f.url)
             /\ ~JsonLoads(f.resp.text).ok
             /\ f.status = 422)
            => LET y == YamlSafeLoad(f.resp.text)
               IN  ~y.ok \/ ~IsDict(y.val) \/ ~ValidRoot(y.val)

\* The entry of a raw parameter list with its `$ref`, if it has one, followed.
Followed(e, spec) ==
    IF Has(e, "$ref") THEN _resolve_internal_ref(e.d["$ref"], spec) ELSE e

\* The positions of a raw parameter list that stand for a parameter: mappings
\* that are something once their `$ref` is followed.
KeptPositions(raw, spec) ==
    {i \in DOMAIN raw : IsDict(raw[i]) /\ Followed(raw[i], spec) # EmptyDict}

\* C24: for every operation of the loaded document, the parameters of its
\* endpoint are the path item's parameters followed by the operation's own, in
\* document order, same-named entries kept apart: the j-th parameter comes from
\* the j-th kept position, and the positions left out are the entries that are
\* no mapping and those that are nothing once their `$ref` is followed.
C24_ParameterOrder ==
    slot # NoneVal =>
        \A p \in DOMAIN slot.raw.d["paths"].d :
            LET item == slot.raw.d["paths"].d[p]
            IN  IsDict(item) =>
                  \A m \in {k \in DOMAIN item.d : Lower(k) \in HTTP_METHODS /\ IsDict(item.d[k])} :
                      LET raw == GetList(item, "parameters") \o GetList(item.d[m], "parameters")
                          kept == KeptPositions(raw, slot.raw)
                          nth(j) == CHOOSE i \in kept :
                                       Cardinality({h \in kept : h <= i}) = j
                      IN  \E e \in DOMAIN slot.endpoints :
                            LET ep == slot.endpoints[e]
                            IN  /\ ep.path = p /\ ep.method = Upper(m)
                                /\ Len(ep.parameters) = Cardinality(kept)
                                /\ \A j \in DOMAIN ep.parameters :
                                     LET src == Followed(raw[nth(j)], slot.raw)
                                     IN  /\ ep.parameters[j].name = Get(src, "name", Str(""))
                                         /\ ep.parameters[j].location
                                              = Get(src, "in", Str("query"))

\* The loaded document has an operation whose six raw entries (shared: P by
\* reference, a non-mapping; own: limit, a dangling reference, deep, P again)
\* give four parameters, id first and last.
C24_Witness ==
    /\ slot # NoneVal
    /\ slot.source_url = U_MAIN
    /\ \E e \in DOMAIN slot.endpoints :
          /\ slot.endpoints[e].path = "/c"
          /\ [j \in 1..4 |-> slot.endpoints[e].parameters[j].name]
               = <<Str("id"), Str("limit"), Str("deep"), Str("id")>>
          /\ Len(slot.endpoints[e].parameters) = 4
          /\ Len(GetList(slot.raw.d["paths"].d["/c"], "parameters")) = 2
          /\ Len(GetList(slot.raw.d["paths"].d["/c"].d["get"], "parameters")) = 4

-----------------------------------------------------------------------------
(* Properties of the depth of external resolution (under SpecDepth) *)

\* The URLs frame f has requested over HTTP.
RequestedBy(f) == {f.sent[i].url : i \in DOMAIN f.sent}

\* The external references of the path table of a root document.
RootRefs(root, url) ==
    { UrlJoin(BaseOf(url), root.d["paths"].d[p].d["$ref"]) :
        p \in {q \in DOMAIN root.d["paths"].d :
                 /\ IsDict(root.d["paths"].d[q])
                 /\ Has(root.d["paths"].d[q], "$ref")
                 /\ ~StartsWithHash(root.d["paths"].d[q].d["$ref"])} }

\* The external references of the parameters of the operation of a fetched
\* path-item document.
ItemRefs(it) ==
    LET ps == GetList(Get(it.doc, "get", EmptyDict), "parameters")
    IN  { UrlJoin(BaseOf(it.url), ps[k].d["$ref"]) :
            k \in {j \in DOMAIN ps : IsExternalRefParam(ps[j])} }

\* C28: a load fetches the root, then the path-item documents the root's path
\* table refers to, then the parameter documents the operations of those
\* path-item documents refer to, and nothing else: no reference inside a
\* parameter document and no path item behind a nested reference is fetched.
\* The two rounds follow each other once, and a load that was started ends,
\* also when the documents refer to themselves and to each other.
C28_BoundedDepth ==
    /\ [](\A c \in DOMAIN loads :
            LET f == loads[c]
            IN  /\ RequestedBy(f) \cap {U_S, U_M} = {}
                /\ f.pc \in {"paths", "params"}
                     => RequestedBy(f) \subseteq
                          {f.url} \cup RootRefs(f.root, f.url)
                          \cup UNION {ItemRefs(f.items[i]) : i \in DOMAIN f.items}
                /\ Len(f.sent) <= 4)
    /\ [][ \A c \in DOMAIN loads :
             /\ loads[c].pc = "paths" => loads'[c].pc \in {"paths", "params", "done"}
             /\ loads[c].pc = "params"
                  => /\ loads'[c].pc \in {"params", "done"}
                     /\ loads'[c].pc = "params" => loads'[c].purls = loads[c].purls ]_vars
    /\ \A c \in LoadCalls :
          (loads[c].pc \in {"root", "paths", "params"}) ~> (loads[c].pc = "done")

\* A load of the cyclic documents has ended with 200 after fetching the root,
\* the two path-item documents and the one parameter document that is not
\* already cached; the self-reference of c.yaml was served from the cache.
C28_Witness ==
    /\ loads[1].pc = "done" /\ loads[1].status = 200
    /\ loads[1].url = U_CYC
    /\ RequestedBy(loads[1]) = {U_CYC, U_C, U_N, U_Q}
    /\ Len(loads[1].sent) = 4
    /\ slot.raw.d["paths"].d["/a"].d["get"].d["parameters"].l = <<DocC, DocQ>>
    /\ slot.raw.d["paths"].d["/b"] = DocN

-----------------------------------------------------------------------------
(* Properties of the fetch pool (under SpecPool) *)

\* C3: at most 30 external-document requests are in flight in every state, in
\* the path-item phase and in the parameter phase, for every number of URLs.
C3_AtMostThirtyInFlight ==
    /\ pool.flight <= 30
    /\ pool.flight + pool.sem = SemLimit

\* The semaphore is saturated in the parameter phase and a fetch is queued.
C3_Witness ==
    /\ pool.phase = "params"
    /\ pool.flight = 30
    /\ pool.wait >= 1

\* C27: with every GET returning or raising, every fetch queued on the
\* semaphore gets a slot and finishes (the queue empties), every slot is free
\* again when the fetches of a phase are finished, and the resolution reaches
\* the inlining phase, for every number of URLs, above 30 included.
C27_QueuedFetchesProgress ==
    /\ <>(pool.phase = "inlined")
    /\ (pool.wait > 0) ~> (pool.wait = 0 /\ pool.flight = 0)
    /\ [](PoolJoined(pool) => pool.sem = SemLimit)

\* The resolution has reached the inlining phase after a phase of more than 30
\* fetches, all of them finished.
C27_Witness ==
    /\ pool.phase = "inlined"
    /\ pool.done > SemLimit
    /\ pool.sem = SemLimit

-----------------------------------------------------------------------------
(* Properties of the proxy engine (under SpecProxy) *)

\* The name of the header the environment's auth injects, "" when none.
InjectedName(env) ==
    IF env.auth.type = "bearer" /\ Truthy(env.auth.token) THEN "Authorization"
    ELSE IF env.auth.type = "api_key" /\ Truthy(env.auth.token)
    THEN (IF Truthy(env.auth.header_name) THEN env.auth.header_name.s ELSE "X-API-Key")
    ELSE ""

Dispatched(f) == f.pc = "dispatch" \/ (f.pc = "done" /\ f.status # 404)

\* C8: when the caller supplies a header whose name equals the auth-injected
\* header's name, in the same or in a different letter case, every outbound
\* header of that name carries the caller's value and the auth value is not sent.
C8_CallerHeaderWins ==
    \A c \in ProxyCalls :
        LET f == pcalls[c]
        IN  Dispatched(f) /\ InjectedName(f.env) # ""
            /\ (\E k \in DOMAIN f.req.headers : Lower(k) = Lower(InjectedName(f.env)))
            => \A n \in DOMAIN f.headers :
                 Lower(n) = Lower(InjectedName(f.env))
                 => n \in DOMAIN f.req.headers /\ f.headers[n] = f.req.headers[n]

\* C9: no hop-by-hop header name is in the outbound header set, nor in the
\* headers of a returned ProxyResponse.
C9_NoHopByHop ==
    \A c \in ProxyCalls :
        LET f == pcalls[c]
        IN  /\ Dispatched(f) => \A n \in DOMAIN f.headers : Lower(n) \notin HOP_BY_HOP
            /\ f.resp # NoneVal
               => \A n \in DOMAIN f.resp.headers : Lower(n) \notin HOP_BY_HOP

\* C10: an unverified call never dispatches through the shared client, a verified
\* call never creates a per-call client, and the shared client's verification
\* setting stays on.
C10_TransportSelection ==
    /\ shared.verify = TRUE
    /\ \A c \in ProxyCalls :
         LET f == pcalls[c]
         IN  Dispatched(f)
             => /\ ~f.env.verify_ssl => (f.via = "tmp" /\ f.tmp # "none")
                /\ f.env.verify_ssl => (f.via = "shared" /\ f.tmp = "none")

\* An unverified call and a verified call are dispatching at the same time.
C10_Witness ==
    /\ pcalls[1].pc = "dispatch" /\ ~pcalls[1].env.verify_ssl /\ pcalls[1].tmp = "open"
    /\ pcalls[2].pc = "dispatch" /\ pcalls[2].env.verify_ssl /\ pcalls[2].via = "shared"

\* C11: an unknown environment gives 404 without a dispatch; a timeout gives 504
\* and any other transport error 502, both without a ProxyResponse; a response
\* of any status gives 200 with a ProxyResponse carrying the upstream status.
C11_OutcomeClassification ==
    \A c \in ProxyCalls :
        LET f == pcalls[c]
        IN  f.pc = "done" =>
              /\ f.status \in {200, 404, 502, 504}
              /\ (f.status = 404) = (f.req.environment_id \notin DOMAIN Envs)
              /\ f.status = 404 => f.attempts = 0 /\ f.outcome = NoneVal /\ f.resp = NoneVal
              /\ f.status # 404 => f.outcome # NoneVal
              /\ (f.status = 504) = (f.status # 404 /\ f.outcome.kind = "timeout")
              /\ (f.status = 502)
                   = (f.status # 404 /\ f.outcome.kind \in {"connect_error", "http_error"})
              /\ f.status \in {502, 504} => f.resp = NoneVal
              /\ (f.status = 200) = (f.status # 404 /\ f.outcome.kind = "response")
              /\ f.status = 200
                   => f.resp # NoneVal /\ f.resp.status_code = f.outcome.status

\* One call ended 504 on a timeout, the other 200 carrying an upstream 500.
C11_Witness ==
    /\ pcalls[1].pc = "done" /\ pcalls[1].status = 504
    /\ pcalls[1].outcome.kind = "timeout"
    /\ pcalls[2].pc = "done" /\ pcalls[2].status = 200
    /\ pcalls[2].resp.status_code = 500

\* The unverified calls whose upstream request is in flight.
UnverifiedDispatching == {c \in DOMAIN pcalls : pcalls[c].pc = "dispatch" /\ ~pcalls[c].env.verify_ssl}

\* C26: an unverified call holds one client of its own from its dispatch on,
\* dispatches once through it, and has closed it when the call has returned or
\* raised; a verified call has none.  In every state the open per-call clients
\* are as many as the unverified calls dispatching, and no two calls hold the
\* same one.
C26_TransportLifecycle ==
    /\ \A c \in DOMAIN pcalls :
          LET f == pcalls[c]
          IN  /\ (f.pc = "dispatch" /\ ~f.env.verify_ssl)
                   => f.tmp = "open" /\ f.client # 0 /\ f.attempts = 1
              /\ (f.pc = "done" /\ f.status # 404 /\ ~f.env.verify_ssl)
                   => f.tmp = "closed" /\ f.client = 0 /\ f.attempts = 1
              /\ (Dispatched(f) /\ f.env.verify_ssl) => f.tmp = "none" /\ f.client = 0
              /\ f.pc \in {"idle"} => f.tmp = "none"
    /\ Cardinality(OpenClients(pcalls)) = Cardinality(UnverifiedDispatching)
    /\ \A c, d \in DOMAIN pcalls :
          (c # d /\ pcalls[c].tmp = "open" /\ pcalls[d].tmp = "open")
          => pcalls[c].client # pcalls[d].client

\* One unverified call has raised on a timeout and closed its client while a
\* second unverified call, started before that, is still dispatching on its own.
C26_Witness ==
    /\ pcalls[1].pc = "done" /\ pcalls[1].status = 504
    /\ ~pcalls[1].env.verify_ssl /\ pcalls[1].tmp = "closed"
    /\ pcalls[2].pc = "dispatch" /\ ~pcalls[2].env.verify_ssl
    /\ pcalls[2].tmp = "open" /\ pcalls[2].client = 2

\* C19: a call dispatches upstream at most once; a timeout or transport error
\* ends the call with its classified status and no further dispatch.
C19_SingleAttempt ==
    \A c \in ProxyCalls :
        LET f == pcalls[c]
        IN  /\ f.attempts <= 1
            /\ f.pc = "dispatch" => f.attempts = 1 /\ f.outcome = NoneVal
            /\ (f.outcome # NoneVal /\ f.outcome.kind # "response")
                 => f.pc = "done" /\ f.status \in {502, 504} /\ f.attempts = 1

\* A call has ended on a transport error after its one dispatch.
C19_Witness ==
    \E c \in ProxyCalls :
        /\ pcalls[c].pc = "done" /\ pcalls[c].status = 502
        /\ pcalls[c].outcome.kind = "connect_error" /\ pcalls[c].attempts = 1

\* The caller's headers that pass the hop-by-hop filter.
CallerKept(f) == {k \in DOMAIN f.req.headers : Lower(k) \notin HOP_BY_HOP}

\* C20: the credentials derived from each auth variant.  The outbound names are
\* the caller's kept names plus the injected name; where the caller does not use
\* the injected name its value is the one derived from auth.
C20_AuthInjection ==
    \A c \in ProxyCalls :
        LET f == pcalls[c]
            a == f.env.auth
            added == DOMAIN f.headers \ CallerKept(f)
        IN  Dispatched(f) =>
              /\ (a.type = "bearer" /\ a.token # NoneVal)
                   => /\ added \subseteq {"Authorization"}
                      /\ "Authorization" \in DOMAIN f.headers
                      /\ "Authorization" \in added
                           => f.headers["Authorization"]
                                = a.bearer_prefix \o " " \o a.token.s
              /\ (a.type = "api_key" /\ a.token # NoneVal)
                   => LET n == IF a.header_name = NoneVal THEN "X-API-Key"
                               ELSE a.header_name.s
                      IN  /\ added \subseteq {n}
                          /\ n \in DOMAIN f.headers
                          /\ n \in added => f.headers[n] = a.token.s
              /\ (a.type \in {"none", "basic"} \/ a.token = NoneVal) => added = {}
              /\ (a.type = "basic" /\ a.username # NoneVal)
                   => f.auth = [ username |-> a.username.s,
                                 password |-> IF a.password = NoneVal THEN ""
                                              ELSE a.password.s ]
              /\ (a.type # "basic" \/ a.username = NoneVal) => f.auth = NoneVal

\* A bearer call and a basic call without a stored password are dispatched, the
\* caller of neither naming the injected header.
C20_Witness ==
    /\ Dispatched(pcalls[1]) /\ pcalls[1].env.auth.type = "bearer"
    /\ pcalls[1].req.headers = <<>>
    /\ pcalls[1].headers = ("Authorization" :> "Bearer tok123")
    /\ Dispatched(pcalls[2]) /\ pcalls[2].env.id = "e_basic"
    /\ pcalls[2].auth = [username |-> "u", password |-> ""]

-----------------------------------------------------------------------------
(* Properties of the outbound URL (under SpecUrl) *)

\* The template read once from the left: a placeholder "{name}" whose name is a
\* key gives the quoted value of that key, every other character stands.
RECURSIVE ExpectedFrom(_, _, _)
ExpectedFrom(t, i, pp) ==
    IF i > Len(t) THEN <<>>
    ELSE LET closes == {j \in (i + 1)..Len(t) :
                          /\ t[j] = "}"
                          /\ \A h \in (i + 1)..(j - 1) : t[h] \notin {"{", "}"}}
             hits == IF t[i] = "{" /\ closes # {}
                     THEN {k \in DOMAIN pp :
                             pp[k].k = SubSeq(t, i + 1, (CHOOSE j \in closes : TRUE) - 1)}
                     ELSE {}
         IN  IF hits # {}
             THEN Quote(pp[CHOOSE k \in hits : TRUE].v)
                  \o ExpectedFrom(t, (CHOOSE j \in closes : TRUE) + 1, pp)
             ELSE <<t[i]>> \o ExpectedFrom(t, i + 1, pp)

\* s contains pat
Contains(s, pat) == \E i \in 1..Len(s) : StartsWithAt(s, i, pat)

\* C25: the outbound path is the template with each placeholder whose name is a
\* key replaced by that key's percent-encoded value and every other placeholder
\* left as written; what was put in for one key is not replaced again for a
\* later key (no brace of a value survives the encoding); the outbound URL is
\* the base URL without its trailing slashes followed by that path; base
\* https://api.test, path /items/{id}, id=7 gives https://api.test/items/7.
C25_UrlAssembly ==
    \A c \in DOMAIN pcalls :
        LET f == pcalls[c]
            b == f.url.base
            base_url == f.env.base_url
        IN  Dispatched(f) =>
              /\ f.url.path = ExpectedFrom(f.req.path, 1, f.req.path_params)
              /\ \A k \in DOMAIN f.req.path_params :
                    LET value == f.req.path_params[k].v
                    IN  Contains(f.req.path, <<"{">> \o f.req.path_params[k].k \o <<"}">>)
                        => /\ \A ch \in {"/", " ", "{", "}"} :
                                (\E i \in DOMAIN value : value[i] = ch)
                                => Cardinality({i \in DOMAIN f.url.path : f.url.path[i] = ch})
                                     <= Cardinality({i \in DOMAIN f.req.path :
                                                       f.req.path[i] = ch})
              /\ (b = <<>> \/ b[Len(b)] # "/")
              /\ Len(b) <= Len(base_url)
              /\ SubSeq(base_url, 1, Len(b)) = b
              /\ \A i \in (Len(b) + 1)..Len(base_url) : base_url[i] = "/"
              /\ (/\ f.req.path = <<"/", "i", "t", "e", "m", "s", "/", "{", "i", "d", "}">>
                  /\ f.req.path_params = <<Item(<<"i", "d">>, <<"7">>)>>)
                 => b \o f.url.path = ApiTest \o <<"/", "i", "t", "e", "m", "s", "/", "7">>

\* A call is dispatched for /{a}/{b} with a = "{b}" and b = "x y" on a base URL
\* with two trailing slashes: the value of a is sent encoded, not replaced by b.
C25_Witness ==
    /\ pcalls[1].pc = "dispatch"
    /\ pcalls[1].env.base_url = ApiTest \o <<"/", "/">>
    /\ pcalls[1].req.path_params
         = <<Item(<<"a">>, <<"{", "b", "}">>), Item(<<"b">>, <<"x", " ", "y">>)>>
    /\ pcalls[1].url.base \o pcalls[1].url.path
         = ApiTest \o <<"/", "%", "7", "B", "b", "%", "7", "D", "/", "x", "%", "2", "0", "y">>

-----------------------------------------------------------------------------
(* Properties of the environment store (under SpecEnv) *)

\* The public projections an answer of the environments API carries.
Projections(r) ==
    IF r.req = NoneVal THEN {}
    ELSE IF r.req.op = "get_all" /\ r.resp.status = 200
    THEN {r.resp.body[i] : i \in DOMAIN r.resp.body}
    ELSE IF r.req.op \in {"create", "get", "update"} /\ r.resp.status \in {200, 201}
    THEN {r.resp.body}
    ELSE {}

\* C12: every answer of the environments API equals the answer of the twin store,
\* which holds other token and password values, and a projection has no token or
\* password field, only the two presence flags.
C12_SecretsDoNotFlow ==
    /\ estore.last.resp = estore.last.tresp
    /\ \A e \in Projections(estore.last) :
          /\ DOMAIN e = {"id", "name", "base_url", "verify_ssl", "auth"}
          /\ DOMAIN e.auth = {"type", "header_name", "bearer_prefix", "username",
                              "has_token", "has_password"}
          /\ e.auth.has_token \in BOOLEAN
          /\ e.auth.has_password \in BOOLEAN

\* The list is answered with the projection of an environment whose token and
\* password differ between the store and its twin.
C12_Witness ==
    /\ estore.last.req # NoneVal
    /\ estore.last.req.op = "get_all"
    /\ estore.last.resp.status = 200
    /\ \E i \in DOMAIN estore.last.resp.body :
          LET id == estore.last.resp.body[i].id
          IN  /\ estore.last.resp.body[i].auth.has_token
              /\ estore.last.resp.body[i].auth.has_password
              /\ id \in DOMAIN estore.data
              /\ estore.data[id].auth.token # estore.twin[id].auth.token
              /\ estore.data[id].auth.password # estore.twin[id].auth.password

\* C13: at most one call is inside a locked section, it is the holder of the
\* lock, and no get or get_all has read the map while a mutation of another
\* call was not yet persisted.
C13_MutationsExclusive ==
    /\ Cardinality(InSection(estore.calls)) <= 1
    /\ \A c \in InSection(estore.calls) : estore.lock = c
    /\ ~estore.last.raced

\* A mutation is between its change of the map and the end of its persist while
\* the other call queues on the lock.
C13_Witness ==
    \E c, d \in EnvCalls :
        /\ estore.calls[c].pc = "writing"
        /\ estore.calls[c].req.op \in {"create", "update", "delete"}
        /\ estore.calls[d].pc = "wait"

\* C14: the file at the store's path is at every step, a crash included, either
\* the complete snapshot that was there before the persist or the complete new one.
C14_CrashSafePersist ==
    /\ estore.fs[StorePath] \in {estore.snap.prev, estore.snap.new}
    /\ estore.fs[StorePath].present => estore.fs[StorePath].complete

\* The process crashed while the temporary file was partly written; the path
\* holds the previous snapshot.
C14_Witness ==
    /\ estore.crashed
    /\ estore.fs[WithSuffixTmp(StorePath)].present
    /\ ~estore.fs[WithSuffixTmp(StorePath)].complete
    /\ estore.fs[WithSuffixTmp(StorePath)].items # <<>>
    /\ estore.fs[StorePath].present
    /\ estore.fs[StorePath] = estore.snap.prev
    /\ estore.snap.prev # estore.snap.new

\* Call c answers in this step.
Answers(c) ==
    /\ estore.calls[c].pc \in {"locked", "written"}
    /\ estore'.calls[c].pc = "idle"

\* C21: an update or delete of an id that is not in the store answers 404 and
\* changes neither the map nor any file; a 404 is answered to get, update and
\* delete only for an id that is not in the store; and every get, update or
\* delete of an id whose delete has succeeded answers 404, no later create
\* bringing the id back.
C21_NotFoundHandling ==
    [][ \A c \in EnvCalls :
          Answers(c) =>
            LET req == estore.calls[c].req
                known == req.id \in DOMAIN estore.data
            IN  /\ (req.op \in {"update", "delete"} /\ estore.calls[c].pc = "locked")
                     => /\ ~known
                        /\ estore'.last.resp = NotFound
                        /\ estore'.data = estore.data
                        /\ estore'.order = estore.order
                        /\ estore'.fs = estore.fs
                /\ (req.op = "get" /\ ~known) => estore'.last.resp = NotFound
                /\ (req.op \in {"get", "update", "delete"} /\ req.id \in estore.deleted)
                     => estore'.last.resp = NotFound
                /\ estore'.deleted \cap DOMAIN estore'.data = {} ]_vars

\* An update of a deleted id has been answered 404 while the store holds the
\* environment created after the deletion.
C21_Witness ==
    /\ estore.last.req # NoneVal
    /\ estore.last.req.op = "update"
    /\ estore.last.req.id \in estore.deleted
    /\ estore.last.resp = NotFound
    /\ DOMAIN estore.data = {"e2"}
    /\ estore.fs[StorePath].items # <<>>

-----------------------------------------------------------------------------
(* Properties of overlapping loads (under SpecOverlap) *)

\* C18: the fetch cache belongs to one load.  Every document a load holds in its
\* cache or has spliced from it was answered to a request of that same load, a
\* load starts its resolution with nothing cached, and a load that completes
\* has requested every external path-item URL of its root itself, whatever
\* earlier or overlapping loads have fetched.
C18_CachePerLoad ==
    \A c \in DOMAIN loads :
        LET f == loads[c]
        IN  /\ DOMAIN f.cache \subseteq RequestedBy(f)
            /\ \A i \in DOMAIN f.items : f.items[i].url \in RequestedBy(f)
            /\ (f.pc = "paths" /\ \A i \in DOMAIN f.tasks : f.tasks[i] = "new")
                 => f.cache = <<>>
            /\ (f.pc = "done" /\ f.status = 200)
                 => \A i \in DOMAIN Phase1External(f.root, f.url) :
                      Phase1External(f.root, f.url)[i].url \in RequestedBy(f)

\* A load has completed after fetching the path-item document, and the other load,
\* started on the same root, has fetched that document again while a load before
\* it had already completed.
C18_Witness ==
    /\ clock >= 1
    /\ loads[1].pc = "done" /\ loads[1].status = 200 /\ U_A \in RequestedBy(loads[1])
    /\ loads[2].pc = "params" /\ U_A \in DOMAIN loads[2].cache
    /\ U_A \in RequestedBy(loads[2])

\* A step of call c in which its load returns 200 from the end of its resolution:
\* no fetch of the load is pending or in flight.
CompletesLoad(c) ==
    /\ loads[c].pc \in {"root", "paths", "params"}
    /\ Joined(loads[c].tasks)
    /\ loads'[c].pc = "done" /\ loads'[c].status = 200

\* C29: with overlapping loads and DELETE requests, the slot equals in every state
\* the result of the load or DELETE that completed last; a step writes the slot only
\* when it is a DELETE, which empties it, or the completion of a successful load,
\* which stores a LoadedSpec of that load's URL whose catalog is the catalog of its
\* raw document; every other step of a load, started, suspended on the network or
\* failed, leaves the slot as it is.
C29_SlotWrites ==
    /\ [](slot = expected)
    /\ [][ slot' # slot
             => \/ last'.kind = "delete" /\ slot' = NoneVal
                \/ \E c \in DOMAIN loads :
                     /\ CompletesLoad(c)
                     /\ last' = Event("load", 200, slot')
                     /\ slot'.t = "LoadedSpec"
                     /\ slot'.source_url = loads[c].url
                     /\ slot'.endpoints = _flatten_endpoints(slot'.raw) ]_vars
    /\ [][ (last'.kind \in LoadStepKinds \/ (last'.kind = "load" /\ last'.status # 200))
             => slot' = slot ]_vars

\* A DELETE has emptied the slot that the load of the other call had filled, while
\* the load of call 1 is suspended on a parameter-document fetch.
C29_Witness ==
    /\ last.kind = "delete" /\ slot = NoneVal
    /\ loads[1].pc = "params" /\ InFlight(loads[1]) # {}
    /\ loads[2].pc = "done" /\ loads[2].status = 200
    /\ clock >= 1

\* C30: in every load, the first request is the GET of the root document at the
\* requested URL with the headers derived from the load's environment (none
\* without an environment), and every later request, for an external path-item or
\* parameter document on whatever host, has no header.
C30_CredentialConfinement ==
    \A c \in DOMAIN loads :
        LET f == loads[c]
        IN  f.sent # <<>> =>
              /\ f.sent[1] = Request(f.url, RootHeaders(IF f.env_id = NoId THEN NoneVal
                                                        ELSE StoreGet(f.env_id)))
              /\ \A k \in 2..Len(f.sent) : f.sent[k].headers = <<>>

\* A load with the bearer environment has sent the Authorization header with the
\* root request and has fetched path-item and parameter documents on two hosts.
C30_Witness ==
    /\ loads[1].env_id = "e_bearer"
    /\ loads[1].pc = "done" /\ loads[1].status = 200
    /\ "Authorization" \in DOMAIN loads[1].sent[1].headers
    /\ Len(loads[1].sent) >= 4
    /\ {loads[1].sent[k].url.dir : k \in 2..Len(loads[1].sent)} = {ItemDir, OtherDir}

====
